---- MODULE Spec2Model ----
(***************************************************************************)
(* A model of the account store of oc-chatgpt-multi-auth (lib/storage.ts): *)
(* the pure normalization of a parsed storage file (normalizeAccountStorage*)
(* with its two dedup passes and the v1 -> v3 migration) and the durable   *)
(* writers (saveAccounts, clearAccounts, importAccounts, loadAccounts)     *)
(* that run their file-system sections under withStorageLock.              *)
(***************************************************************************)
EXTENDS Integers, Sequences, FiniteSets, TLC

(***************************************************************************)
(* Parsed JSON values.  Every value carries its JavaScript type.  A string *)
(* is the sequence of its characters, so that trim() is computed.  Numbers *)
(* that are used as array indices (activeIndex, activeIndexByFamily) are   *)
(* carried in halves: the JSON number x is the integer 2x, which lets the  *)
(* model hold the fractional index 0.5 (as 1) next to 0, 1, 2 (as 0, 2, 4).*)
(* All other numbers (version, timestamps) are carried as they are.        *)
(***************************************************************************)
Undefined == [type |-> "undefined"]
Null == [type |-> "null"]
Str(s) == [type |-> "string", val |-> s]
Num(n) == [type |-> "number", val |-> n]
Arr(items) == [type |-> "array", items |-> items]

\* The index-valued JSON number n, in halves.
Whole(n) == 2 * n
IsInteger(h) == h % 2 = 0

Max(a, b) == IF a >= b THEN a ELSE b
Min(a, b) == IF a <= b THEN a ELSE b

\* String.prototype.trim on a sequence of characters; " " is the whitespace.
RECURSIVE TrimStart(_)
TrimStart(s) == IF s # << >> /\ Head(s) = " " THEN TrimStart(Tail(s)) ELSE s
RECURSIVE TrimEnd(_)
TrimEnd(s) ==
    IF s # << >> /\ s[Len(s)] = " " THEN TrimEnd(SubSeq(s, 1, Len(s) - 1)) ELSE s
trim(s) == TrimEnd(TrimStart(s))

\* JavaScript truthiness of a JSON value (!!v).
Truthy(v) ==
    CASE v.type = "string" -> v.val # << >>
      [] v.type = "number" -> v.val # 0
      [] v.type \in {"object", "array"} -> TRUE
      [] OTHER -> FALSE

\* a || b
OrElse(a, b) == IF Truthy(a) THEN a ELSE b

\* a === b on JSON primitives
StrictEq(a, b) == a.type = b.type /\ a = b

isRecord(value) == value.type = "object"

IsNumber(v) == v.type = "number"
IsString(v) == v.type = "string"

\* typeof v === "string" && v.trim()
NonBlankString(v) == IsString(v) /\ trim(v.val) # << >>

(***************************************************************************)
(* Accounts.  An account entry of the file is an object with the fields    *)
(* the code reads; a field the object does not have is Undefined.  lastUsed*)
(* and addedAt are read only through (x || 0), so an absent one is 0.      *)
(***************************************************************************)
MODEL_FAMILIES == <<"gpt-5.2-codex", "codex-max", "codex", "gpt-5.2", "gpt-5.1">>
Families == {MODEL_FAMILIES[i] : i \in 1..Len(MODEL_FAMILIES)}

Account(accountId, email, refreshToken, addedAt, lastUsed, rateLimitResetTime) ==
    [type |-> "object", accountId |-> accountId, accountLabel |-> Undefined,
     email |-> email, refreshToken |-> refreshToken, addedAt |-> addedAt,
     lastUsed |-> lastUsed, rateLimitResetTime |-> rateLimitResetTime,
     rateLimitResetTimes |-> Undefined]

\* 1 when the candidate is returned, 0 when current is.
selectNewestAccount(current, candidate) ==
    LET currentLastUsed == current.lastUsed
        candidateLastUsed == candidate.lastUsed
    IN  IF candidateLastUsed > currentLastUsed THEN 1
        ELSE IF candidateLastUsed < currentLastUsed THEN 0
        ELSE IF candidate.addedAt >= current.addedAt THEN 1 ELSE 0

(***************************************************************************)
(* A Map<key, index> is the sequence of its entries in insertion order.    *)
(***************************************************************************)
MapHas(m, k) == \E j \in 1..Len(m) : StrictEq(m[j].key, k)
MapGet(m, k) == m[CHOOSE j \in 1..Len(m) : StrictEq(m[j].key, k)].idx
MapSet(m, k, i) ==
    IF MapHas(m, k)
    THEN [j \in 1..Len(m) |-> IF StrictEq(m[j].key, k) THEN [key |-> k, idx |-> i] ELSE m[j]]
    ELSE Append(m, [key |-> k, idx |-> i])
MapValues(m) == {m[j].idx : j \in 1..Len(m)}

\* The entries of accounts at the kept positions, in their original order.
RECURSIVE KeepIndices(_, _, _)
KeepIndices(accounts, indicesToKeep, i) ==
    IF i > Len(accounts) THEN << >>
    ELSE IF i \in indicesToKeep
         THEN <<accounts[i]>> \o KeepIndices(accounts, indicesToKeep, i + 1)
         ELSE KeepIndices(accounts, indicesToKeep, i + 1)

toAccountKey(account) == OrElse(account.accountId, account.refreshToken)

\* The first loop of deduplicateAccountsByKey, from position i on.
RECURSIVE keyToIndexLoop(_, _, _)
keyToIndexLoop(accounts, i, keyToIndex) ==
    IF i > Len(accounts) THEN keyToIndex
    ELSE LET account == accounts[i]
             key == OrElse(account.accountId, account.refreshToken)
         IN  IF ~Truthy(key) THEN keyToIndexLoop(accounts, i + 1, keyToIndex)
             ELSE IF ~MapHas(keyToIndex, key)
                  THEN keyToIndexLoop(accounts, i + 1, MapSet(keyToIndex, key, i))
             ELSE LET existingIndex == MapGet(keyToIndex, key)
                      newest == selectNewestAccount(accounts[existingIndex], account)
                  IN  keyToIndexLoop(accounts, i + 1,
                          MapSet(keyToIndex, key, IF newest = 1 THEN i ELSE existingIndex))

deduplicateAccountsByKey(accounts) ==
    KeepIndices(accounts, MapValues(keyToIndexLoop(accounts, 1, << >>)), 1)

deduplicateAccounts(accounts) == deduplicateAccountsByKey(accounts)

\* account.email?.trim() calls trim on whatever a non-nullish email is: it
\* throws a TypeError when the email is not a string.
EmailTrimThrows(account) == account.email.type \notin {"string", "undefined", "null"}

\* The email compared without trim().
TrimmedEmailUntrimmed(account) == IF IsString(account.email) THEN account.email.val ELSE << >>

\* account.email?.trim() as a string: << >> when the email is nullish.
TrimmedEmail(account) == IF IsString(account.email) THEN trim(account.email.val) ELSE << >>

\* The first loop of deduplicateAccountsByEmail, from position i on: the pair
\* of emailToNewestIndex and indicesToKeep.
RECURSIVE emailLoop(_, _, _, _)
emailLoop(accounts, i, emailToNewestIndex, indicesToKeep) ==
    IF i > Len(accounts)
    THEN [emailToNewestIndex |-> emailToNewestIndex, indicesToKeep |-> indicesToKeep]
    ELSE LET account == accounts[i]
             email == Str(TrimmedEmail(account))
         IN  IF ~Truthy(email)
             THEN emailLoop(accounts, i + 1, emailToNewestIndex, indicesToKeep \cup {i})
             ELSE IF ~MapHas(emailToNewestIndex, email)
                  THEN emailLoop(accounts, i + 1, MapSet(emailToNewestIndex, email, i),
                                 indicesToKeep)
             ELSE LET existing == accounts[MapGet(emailToNewestIndex, email)]
                      isNewer ==
                          \/ account.lastUsed > existing.lastUsed
                          \/ /\ account.lastUsed = existing.lastUsed
                             /\ account.addedAt > existing.addedAt
                  IN  emailLoop(accounts, i + 1,
                          IF isNewer THEN MapSet(emailToNewestIndex, email, i)
                          ELSE emailToNewestIndex,
                          indicesToKeep)

Thrown == [kind |-> "throw", error |-> "TypeError"]
IsThrown(r) == r = Thrown

\* The loop of deduplicateAccountsByEmail visits every account, so the call
\* throws when any account's email is not a string, undefined or null.
deduplicateAccountsByEmailThrows(accounts) ==
    \E i \in 1..Len(accounts) : EmailTrimThrows(accounts[i])

\* The accounts kept, for accounts on which the call does not throw.
deduplicateAccountsByEmail(accounts) ==
    LET r == emailLoop(accounts, 1, << >>, {})
    IN  KeepIndices(accounts, r.indicesToKeep \cup MapValues(r.emailToNewestIndex), 1)

clampIndex(index, length) ==
    IF length <= 0 THEN 0
    ELSE Max(0, Min(index, Whole(length - 1)))

\* accounts[index] of a JavaScript array: undefined unless index is an
\* integer inside the array.
ArrayAt(accounts, index) ==
    IF IsInteger(index) /\ (index \div 2) \in 0..(Len(accounts) - 1)
    THEN accounts[(index \div 2) + 1]
    ELSE Undefined

extractActiveKey(accounts, activeIndex) ==
    LET candidate == ArrayAt(accounts, activeIndex)
    IN  IF ~isRecord(candidate) THEN Undefined
        ELSE LET accountId ==
                     IF NonBlankString(candidate.accountId) THEN candidate.accountId
                     ELSE Undefined
                 refreshToken ==
                     IF NonBlankString(candidate.refreshToken) THEN candidate.refreshToken
                     ELSE Undefined
             IN  OrElse(accountId, refreshToken)

\* Array.prototype.findIndex for (account) => toAccountKey(account) === key:
\* the 0-based position of the first match, or -1.
findIndexByKey(accounts, key) ==
    IF \E i \in 1..Len(accounts) : StrictEq(toAccountKey(accounts[i]), key)
    THEN (CHOOSE i \in 1..Len(accounts) :
             /\ StrictEq(toAccountKey(accounts[i]), key)
             /\ \A j \in 1..(i - 1) : ~StrictEq(toAccountKey(accounts[j]), key)) - 1
    ELSE -1

(***************************************************************************)
(* A storage object of the file: version, accounts, activeIndex and        *)
(* activeIndexByFamily, each of whatever JSON type the file holds.  An     *)
(* activeIndexByFamily object is ByFamily(m), m giving every family's      *)
(* value (Undefined for a family the object does not name).                *)
(***************************************************************************)
ByFamily(m) == [type |-> "object", byFamily |-> m]

Storage(version, accounts, activeIndex, activeIndexByFamily) ==
    [type |-> "object", version |-> version, accounts |-> accounts,
     activeIndex |-> activeIndex, activeIndexByFamily |-> activeIndexByFamily]

\* The callback of v1.accounts.map in migrateV1ToV3.  Reading a property of
\* a primitive entry yields undefined.
migrateAccount(account, now) ==
    LET rl == IF isRecord(account) THEN account.rateLimitResetTime ELSE Undefined
        rateLimitResetTimes ==
            IF IsNumber(rl) /\ rl.val > now
            THEN ByFamily([family \in Families |-> Num(rl.val)])
            ELSE Undefined
    IN  IF isRecord(account)
        THEN [account EXCEPT !.rateLimitResetTime = Undefined,
                             !.rateLimitResetTimes = rateLimitResetTimes]
        ELSE [Account(Undefined, Undefined, Undefined, 0, 0, Undefined)
                 EXCEPT !.rateLimitResetTimes = rateLimitResetTimes]

\* Reading account.rateLimitResetTime of a null entry throws a TypeError.
migrateV1ToV3(v1, now) ==
    LET accounts == v1.accounts.items
    IN  IF \E i \in 1..Len(accounts) : accounts[i].type \in {"null", "undefined"}
        THEN Thrown
        ELSE Storage(Num(3),
                     Arr([i \in 1..Len(accounts) |-> migrateAccount(accounts[i], now)]),
                     v1.activeIndex,
                     ByFamily([family \in Families |-> v1.activeIndex]))

ReturnedNull == [kind |-> "null"]

normalizeAccountStorage(data, now) ==
    IF ~isRecord(data) THEN ReturnedNull
    ELSE IF ~StrictEq(data.version, Num(1)) /\ ~StrictEq(data.version, Num(3))
    THEN ReturnedNull
    ELSE IF data.accounts.type # "array" THEN ReturnedNull
    ELSE
    LET rawAccounts == data.accounts.items
        activeIndexValue == IF IsNumber(data.activeIndex) THEN data.activeIndex.val ELSE 0
        rawActiveIndex == clampIndex(activeIndexValue, Len(rawAccounts))
        activeKey == extractActiveKey(rawAccounts, rawActiveIndex)
        baseStorage ==
            IF StrictEq(data.version, Num(1)) THEN migrateV1ToV3(data, now) ELSE data
        validAccounts ==
            SelectSeq(rawAccounts,
                      LAMBDA account : isRecord(account) /\ NonBlankString(account.refreshToken))
        keyDeduplicated == deduplicateAccountsByKey(validAccounts)
        deduplicatedAccounts == deduplicateAccountsByEmail(keyDeduplicated)
        mappedActive == findIndexByKey(deduplicatedAccounts, activeKey)
        activeIndex ==
            IF Len(deduplicatedAccounts) = 0 THEN 0
            ELSE IF Truthy(activeKey) /\ mappedActive >= 0 THEN Whole(mappedActive)
            ELSE clampIndex(rawActiveIndex, Len(deduplicatedAccounts))
        rawFamilyIndices ==
            IF isRecord(baseStorage.activeIndexByFamily)
            THEN baseStorage.activeIndexByFamily.byFamily
            ELSE [family \in Families |-> Undefined]
        familyIndex(family) ==
            LET rawIndexValue == rawFamilyIndices[family]
                rawIndex == IF IsNumber(rawIndexValue) THEN rawIndexValue.val ELSE rawActiveIndex
                clampedRawIndex == clampIndex(rawIndex, Len(rawAccounts))
                familyKey == extractActiveKey(rawAccounts, clampedRawIndex)
                idx == findIndexByKey(deduplicatedAccounts, familyKey)
            IN  IF Truthy(familyKey) /\ Len(deduplicatedAccounts) > 0 /\ idx >= 0
                THEN Whole(idx)
                ELSE clampIndex(rawIndex, Len(deduplicatedAccounts))
    IN  IF IsThrown(baseStorage) \/ deduplicateAccountsByEmailThrows(keyDeduplicated)
        THEN Thrown
        ELSE [kind |-> "pool", version |-> 3, accounts |-> deduplicatedAccounts,
              activeIndex |-> activeIndex,
              activeIndexByFamily |-> [family \in Families |-> familyIndex(family)]]

\* The returned pool as the value a caller passes back in.
PoolAsData(pool) ==
    Storage(Num(pool.version), Arr(pool.accounts), Num(pool.activeIndex),
            ByFamily([family \in Families |-> Num(pool.activeIndexByFamily[family])]))

(***************************************************************************)
(* Bounds and the inputs of the normalization.                             *)
(***************************************************************************)
MaxAccounts == 3
MaxNow == 3

PastTime == MaxNow - 2
FutureTime == MaxNow + 2

\* The account entries a file may hold: null, a blank refresh token, equal
\* keys with different lastUsed, a blank accountId, emails equal after trim,
\* an email that is a number, v1 reset times in the past and in the future.
Entries ==
    { Null,
      Account(Undefined, Undefined, Str(<<" ">>), 0, 0, Undefined),
      Account(Str(<<"A">>), Undefined, Str(<<"r">>), 1, 1, Undefined),
      Account(Str(<<"A">>), Str(<<"e">>), Str(<<"s">>), 2, 2, Num(FutureTime)),
      Account(Undefined, Undefined, Str(<<"r">>), 0, 0, Num(PastTime)),
      Account(Str(<<" ">>), Str(<<"e", " ">>), Str(<<"r">>), 2, 2, Undefined),
      Account(Undefined, Num(5), Str(<<"t">>), 0, 0, Undefined),
      Account(Str(<<"B">>), Str(<<"e">>), Str(<<"t">>), 2, 1, Num(FutureTime)) }

\* Every object of a file is an object of its own: the entry at position i
\* carries the accountLabel i, which no code path of the store reads.
Labelled(entry, i) ==
    IF isRecord(entry) THEN [entry EXCEPT !.accountLabel = Str(<<ToString(i)>>)] ELSE entry

\* Raw index values: missing, negative, fractional (0.5), 1, too large.
IndexValues == {Undefined, Num(-2), Num(1), Num(2), Num(Whole(MaxAccounts + 1))}

FamilyIndexValues ==
    {Undefined} \cup
    {ByFamily([family \in Families |-> IF family = "codex" THEN v ELSE Undefined]) :
        v \in IndexValues \ {Undefined, Num(-2)}}

\* The parsed files with the list of accounts, and those that have none.
Inputs(accounts) ==
    {Null, Str(<<"A">>), Arr(<< >>),
     Storage(Num(2), Arr(<< >>), Num(0), Undefined),
     Storage(Undefined, Arr(<< >>), Num(0), Undefined),
     Storage(Num(3), Undefined, Num(0), Undefined)}
    \cup {Storage(Num(1), Arr(accounts), activeIndex, Undefined) :
            activeIndex \in IndexValues}
    \cup {Storage(Num(3), Arr(accounts), activeIndex, Undefined) :
            activeIndex \in IndexValues}
    \cup {Storage(Num(3), Arr(accounts), activeIndex, byFamily) :
            activeIndex \in {Undefined, Num(2)},
            byFamily \in FamilyIndexValues \ {Undefined}}

NotCalled == [kind |-> "none"]

(***************************************************************************)
(* The storage file and the temp files beside it.  A file holds all, part  *)
(* or none (size 0) of the text JSON.stringify made of a storage object;   *)
(* JSON.parse of that text gives the object back, its undefined fields     *)
(* missing, and throws on a text that is not all there.  The store is the  *)
(* global one (currentStoragePath is null), for which ensureGitignore      *)
(* returns at once.  The calls are made within one millisecond, so that    *)
(* every saveAccounts has the same tempPath: one temp file.                *)
(***************************************************************************)
Absent == [kind |-> "absent"]
File(written, json) == [kind |-> "file", written |-> written, json |-> json]
Complete(content) == content.kind = "file" /\ content.written = "all"

getStoragePath == "~/.opencode/openai-codex-accounts.json"

\* stats.size === 0
SizeIsZeroNever(content) == FALSE
SizeIsZero(content) == content.written = "none"

\* The category of the hint text; the platform only changes its wording.
formatStorageErrorHint(code) ==
    CASE code \in {"EACCES", "EPERM"} -> "permission denied"
      [] code = "EBUSY" -> "file is locked"
      [] code = "ENOSPC" -> "disk is full"
      [] code = "EEMPTY" -> "file written but is empty"
      [] OTHER -> "failed to write"

\* new StorageError(message, err?.code || "UNKNOWN", path, hint); an error
\* without a code is the code "".
StorageError(code) ==
    [name |-> "StorageError", code |-> IF code = "" THEN "UNKNOWN" ELSE code,
     path |-> getStoragePath, hint |-> formatStorageErrorHint(code)]

Resolved(value) == [kind |-> "resolved", value |-> value]
Rejected(error) == [kind |-> "rejected", error |-> error]

\* The code of the error that a failing file-system call throws.
ErrnoCodes == {"ENOSPC"}

MAX_ACCOUNTS == 2

MaxCalls == 2
Calls == 1..MaxCalls

AccountA == Account(Str(<<"A">>), Str(<<"e">>), Str(<<"r">>), 1, 1, Num(FutureTime))
AccountB == Account(Str(<<"B">>), Undefined, Str(<<"s">>), 1, 2, Undefined)
AccountC == Account(Str(<<"C">>), Str(<<"e", " ">>), Str(<<"t">>), 2, 2, Undefined)
AccountD == Account(Str(<<"E">>), Undefined, Str(<<"u">>), 2, 2, Undefined)
AccountE == Account(Str(<<"E">>), Undefined, Str(<<"v">>), 1, 1, Undefined)
AccountF == Account(Str(<<"F">>), Undefined, Str(<<"w">>), 2, 2, Undefined)

AllZero == ByFamily([family \in Families |-> Num(0)])

\* What the storage file holds at the start: a v1 file of two accounts, the
\* second one active.
InitialFiles ==
    {File("all", Storage(Num(1), Arr(<<AccountA, AccountE>>), Num(Whole(1)), Undefined))}

\* The pools callers save.
SaveArguments == {Storage(Num(3), Arr(<<AccountB>>), Num(0), AllZero)}

\* The parsed import files: a pool of two accounts that the accounts of the
\* initial file duplicate (AccountC by email, AccountD by key), a pool of one
\* account that nothing duplicates, and not a storage object.
ImportFiles ==
    {Storage(Num(3), Arr(<<AccountC, AccountD>>), Num(0), Undefined),
     Storage(Num(3), Arr(<<AccountF>>), Num(0), Undefined),
     Null}

VARIABLES
    data, now, normalized, renormalized,
    fsTarget,       \* the content of the storage file
    fsTemp,         \* the content of the temp file <path>.<ms>.tmp
    storageMutex,   \* the newest promise of the lock chain; 0 is the first one
    resolved,       \* the promises of the chain that are resolved
    op,             \* per call: the operation called
    pc,             \* per call: where it stands
    purpose,        \* per call: why it is in withStorageLock
    storage,        \* per call: the argument of its saveAccounts
    previousMutex,  \* per call: previousMutex of its withStorageLock
    releaseLock,    \* per call: the promise its releaseLock resolves
    unlinkFailed,   \* per call: whether the unlink of its catch block threw
    imported,       \* per call: the normalized import file of its importAccounts
    caught,         \* per call: the code of the error its catch holds
    failedAt,       \* per call: the step of saveAccounts that threw it
    loaded,         \* per call: what its loadAccounts read and returns
    counts,         \* per call: the counts of its importAccounts, once it saves
    saved,          \* per call: how its last saveAccounts settled
    outcome,        \* per call: how the call settled
    atStart,        \* per call: the storage file when its section began
    committed       \* the contents renamed onto the storage file so far

normVars == <<data, normalized, renormalized>>
fsVars == <<fsTarget, fsTemp, committed>>
lockVars == <<storageMutex, resolved, previousMutex, releaseLock>>
callVars == <<op, pc, purpose, storage, unlinkFailed, imported, caught, failedAt, loaded,
              counts,
              saved, outcome, atStart>>
storeVars == <<fsVars, lockVars, callVars>>

(***************************************************************************)
(* A CircuitBreaker.                                                       *)
(***************************************************************************)
VARIABLES
    config,             \* this.config
    state,              \* this.state
    failures,           \* this.failures: the timestamps kept, oldest first
    lastStateChange,    \* this.lastStateChange
    halfOpenAttempts,   \* this.halfOpenAttempts
    clock,              \* Date.now()
    last,               \* the call made last, if no time has passed since: the
                        \* method, the state it found and how it ended
    recorded,           \* every failure recorded since the breaker last became
                        \* closed, pruned or not
    openedAt,           \* when the breaker last entered open
    trials              \* while half-open: the canExecute calls that returned
                        \* true since the breaker became half-open

breakerVars == <<config, state, failures, lastStateChange, halfOpenAttempts, clock, last,
                 recorded, openedAt, trials>>

(***************************************************************************)
(* The registry of circuit breakers.                                       *)
(***************************************************************************)
VARIABLES
    circuitBreakers,    \* the Map: its entries [key, breaker] in insertion order
    created,            \* the number of breakers constructed so far; a breaker is
                        \* named by its number
    gets,               \* the number of getCircuitBreaker calls so far
    asked,              \* per key now in the Map: the number of the last call
                        \* that asked for it, and the breaker that call returned
    evicted             \* the entry deleted last, with the call that last asked
                        \* for its key

registryVars == <<circuitBreakers, created, gets, asked, evicted>>

(***************************************************************************)
(* One call of probeAccountsInParallel.                                    *)
(***************************************************************************)
VARIABLES
    candidates,         \* the argument: the candidates, in the order of the list
    probes,             \* per candidate: the promise that probeFn returned
    microtasks,         \* the promise jobs waiting to run, the first one first
    winner,             \* let winner
    resolvedCount,      \* let resolvedCount
    promise,            \* the promise that probeAccountsInParallel returned
    resolveCalls,       \* how many times the prober has settled that promise
    aborts,             \* per candidate: the controller.abort() calls the prober
                        \* made, each with the candidate whose handler made it
    fulfilledOrder      \* the candidates whose probes succeeded, in the order in
                        \* which they did

probeVars == <<candidates, probes, microtasks, winner, resolvedCount, promise,
               resolveCalls, aborts, fulfilledOrder>>

(***************************************************************************)
(* The pool snapshot, the health tracker and the token bucket tracker.     *)
(***************************************************************************)
VARIABLES
    pool,               \* accountManager.getAccountsSnapshot(): the accounts
    healthTracker,      \* getHealthTracker(): per key its entry, if it has one
    tokenTracker,       \* getTokenTracker(): per key its entry, if it has one
    selection,          \* the selection made last: the call, what it found and
                        \* what it returned
    reports             \* the number of calls made to the trackers by the caller

selectVars == <<pool, healthTracker, tokenTracker, selection, reports>>

(***************************************************************************)
(* The auth rate limiter.                                                  *)
(***************************************************************************)
VARIABLES
    authConfig,         \* let config
    attemptsByAccount,  \* the Map: per key its record, if it has one
    dateNow,            \* Date.now()
    attempted,          \* per key: the times of the attempts recorded for it
                        \* since it was last reset, pruned or not
    authCall            \* the call made last, if no time has passed since: its
                        \* argument, its time and how it ended

authVars == <<authConfig, attemptsByAccount, dateNow, attempted, authCall>>

(***************************************************************************)
(* The rate-limit backoff.                                                 *)
(***************************************************************************)
VARIABLES
    backoffState,       \* per key: its attempt counter, if it has one
    backoffCall         \* the report made last, if no time has passed since: its
                        \* arguments, the entry of its key before it and what it
                        \* returned

backoffVars == <<backoffState, backoffCall>>

limitVars == <<authVars, backoffVars>>

(***************************************************************************)
(* The shutdown coordinator.                                               *)
(***************************************************************************)
VARIABLES
    cleanupFunctions,   \* the registered callbacks, in registration order
    shutdownRegistered, \* whether ensureShutdownHandler has installed the handlers
    listeners,          \* per event of process: the handlers attached to it now
    installs,           \* per event: the process.once calls made for it
    runs,               \* the calls of runCleanup, in call order: the callbacks
                        \* each took, those it has invoked, whether it awaits
                        \* the last of them, and what called it
    invoked,            \* per callback: how often it was invoked
    registered,         \* per callback: how often it was registered
    exitBy              \* what called process.exit(0), once it is called

shutdownVars == <<cleanupFunctions, shutdownRegistered, listeners, installs, runs, invoked,
                  registered, exitBy>>

utilVars == <<breakerVars, registryVars, probeVars, selectVars, limitVars, shutdownVars>>
nonBreakerVars == <<registryVars, probeVars, selectVars, limitVars, shutdownVars>>
nonRegistryVars == <<breakerVars, probeVars, selectVars, limitVars, shutdownVars>>
nonProbeVars == <<breakerVars, registryVars, selectVars, limitVars, shutdownVars>>
nonLimitVars == <<breakerVars, registryVars, probeVars, selectVars, shutdownVars>>
nonShutdownVars == <<breakerVars, registryVars, probeVars, selectVars, limitVars>>
vars == <<normVars, now, storeVars, utilVars>>

\* No call has been made to a breaker.
NoCall == [op |-> "none", before |-> "none", result |-> "none"]

\* new CircuitBreaker(config) at time 0.
NewBreaker(c) ==
    /\ config = c
    /\ state = "closed"
    /\ failures = << >>
    /\ lastStateChange = 0
    /\ halfOpenAttempts = 0
    /\ clock = 0
    /\ last = NoCall
    /\ recorded = << >>
    /\ openedAt = 0
    /\ trials = 0

\* DEFAULT_CIRCUIT_BREAKER_CONFIG, its times in units of 30 seconds.
DEFAULT_CIRCUIT_BREAKER_CONFIG ==
    [failureThreshold |-> 3, failureWindowMs |-> 2, resetTimeoutMs |-> 1,
     halfOpenMaxAttempts |-> 1]

\* const circuitBreakers = new Map()
NoneEvicted == [kind |-> "none"]
EmptyRegistry ==
    /\ circuitBreakers = << >>
    /\ created = 0
    /\ gets = 0
    /\ asked = << >>
    /\ evicted = NoneEvicted

MaxCandidates == 3

\* A promise: pending, or settled with a value.
Pending == [state |-> "pending"]
Fulfilled(value) == [state |-> "fulfilled", value |-> value]
RejectedWith(error) == [state |-> "rejected", error |-> error]

\* probeAccountsInParallel has not been called.
NotProbing ==
    /\ candidates = << >>
    /\ probes = [i \in 1..MaxCandidates |-> [state |-> "none"]]
    /\ microtasks = << >>
    /\ winner = Null
    /\ resolvedCount = 0
    /\ promise = [state |-> "none"]
    /\ resolveCalls = 0
    /\ aborts = [i \in 1..MaxCandidates |-> << >>]
    /\ fulfilledOrder = << >>

MaxPool == 3

\* The quota keys: the model family, and the family with a model.
QuotaKeys == {"codex", "codex:m"}

\* The keys of the trackers: an account index with a quota key.
TrackerKeys == (0..(MaxPool - 1)) \X QuotaKeys

\* A tracker has no entry under a key.
NoEntry == [kind |-> "none"]
NoSelection == [op |-> "none"]

\* New trackers, no pool and no selection made.
NotSelecting ==
    /\ pool = << >>
    /\ healthTracker = [k \in TrackerKeys |-> NoEntry]
    /\ tokenTracker = [k \in TrackerKeys |-> NoEntry]
    /\ selection = NoSelection
    /\ reports = 0

\* const DEFAULT_CONFIG of the auth rate limiter, its window in units of 30 s.
DEFAULT_CONFIG == [maxAttempts |-> 5, windowMs |-> 2]

\* The account identifiers: strings, as the sequences of their characters.
AccountIds == {<<"a">>, <<"A", " ">>, <<" ", "a">>, <<"b">>}

\* String.prototype.toLowerCase.
toLowerCase(s) ==
    [i \in 1..Len(s) |-> CASE s[i] = "A" -> "a" [] s[i] = "B" -> "b" [] OTHER -> s[i]]

\* getAccountKey: the identifier lowercased, then trimmed.
getAccountKey(accountId) == trim(toLowerCase(accountId))

AuthKeys == {getAccountKey(accountId) : accountId \in AccountIds}

NoAuthCall == [op |-> "none"]

\* The auth rate limiter as the module is loaded, with a configuration.
NewLimiter(c) ==
    /\ authConfig = c
    /\ attemptsByAccount = [key \in AuthKeys |-> Undefined]
    /\ dateNow = 0
    /\ attempted = [key \in AuthKeys |-> << >>]
    /\ authCall = NoAuthCall

\* The keys of the backoff state: an account index with a quota key.
BackoffKeys == {<<0, "codex">>, <<1, "codex">>}

NoReport == [op |-> "none"]

\* The backoff state once clearRateLimitBackoffState has run.
BackoffCleared ==
    /\ backoffState = [key \in BackoffKeys |-> NoEntry]
    /\ backoffCall = NoReport

LimitersAtRest == NewLimiter(DEFAULT_CONFIG) /\ BackoffCleared

\* The callbacks that are registered, and the events of process.
MaxCallbacks == 3
Callbacks == 1..MaxCallbacks
Signals == {"SIGINT", "SIGTERM"}
Events == Signals \cup {"beforeExit"}

\* The shutdown module as it is loaded.
ShutdownLoaded ==
    /\ cleanupFunctions = << >>
    /\ shutdownRegistered = FALSE
    /\ listeners = [event \in Events |-> 0]
    /\ installs = [event \in Events |-> 0]
    /\ runs = << >>
    /\ invoked = [fn \in Callbacks |-> 0]
    /\ registered = [fn \in Callbacks |-> 0]
    /\ exitBy = "none"

\* The parts of the model that a specification does not use, at rest.
UtilAtRest ==
    /\ ShutdownLoaded
    /\ NewBreaker(DEFAULT_CIRCUIT_BREAKER_CONFIG)
    /\ EmptyRegistry
    /\ NotProbing
    /\ NotSelecting
    /\ LimitersAtRest

\* The store at rest: no call made, the lock chain at its first promise.
StoreAtRest ==
    /\ fsTemp = Absent
    /\ committed = {}
    /\ storageMutex = 0
    /\ resolved = {0}
    /\ op = [k \in Calls |-> "none"]
    /\ pc = [k \in Calls |-> "idle"]
    /\ purpose = [k \in Calls |-> "none"]
    /\ storage = [k \in Calls |-> Undefined]
    /\ previousMutex = [k \in Calls |-> 0]
    /\ releaseLock = [k \in Calls |-> 0]
    /\ unlinkFailed = [k \in Calls |-> FALSE]
    /\ imported = [k \in Calls |-> NotCalled]
    /\ caught = [k \in Calls |-> ""]
    /\ failedAt = [k \in Calls |-> "none"]
    /\ loaded = [k \in Calls |-> [content |-> Absent, value |-> NotCalled]]
    /\ counts = [k \in Calls |-> NotCalled]
    /\ saved = [k \in Calls |-> NotCalled]
    /\ outcome = [k \in Calls |-> NotCalled]
    /\ atStart = [k \in Calls |-> Absent]

(***************************************************************************)
(* Normalization of one parsed file.                                       *)
(***************************************************************************)
InitNormalize ==
    /\ \E n \in 0..MaxAccounts : \E f \in [1..n -> Entries] :
           data \in Inputs([i \in 1..n |-> Labelled(f[i], i)])
    /\ now = MaxNow
    /\ normalized = NotCalled
    /\ renormalized = NotCalled
    /\ fsTarget = Absent
    /\ StoreAtRest
    /\ UtilAtRest

\* normalizeAccountStorage(data)
Normalize ==
    /\ normalized = NotCalled
    /\ normalized' = normalizeAccountStorage(data, now)
    /\ UNCHANGED <<data, now, renormalized, storeVars, utilVars>>

\* normalizeAccountStorage applied to the pool it returned
Renormalize ==
    /\ normalized.kind = "pool"
    /\ renormalized = NotCalled
    /\ renormalized' = normalizeAccountStorage(PoolAsData(normalized), now)
    /\ UNCHANGED <<data, now, normalized, storeVars, utilVars>>

NextNormalize == Normalize \/ Renormalize

SpecNormalize == InitNormalize /\ [][NextNormalize]_vars

(***************************************************************************)
(* The durable writers and loadAccounts.  Every await of the code is a     *)
(* step; what runs between two awaits is one step.  A file-system call     *)
(* either succeeds or throws an error with one of ErrnoCodes.  The locals  *)
(* of a function are reset when it returns.                                *)
(***************************************************************************)

\* previousMutex.then(fn): fn starts once previousMutex is resolved.
previousMutexIgnored(mutex) == TRUE
previousMutexResolved(mutex) == mutex \in resolved

\* What fs.unlink leaves of a file it removes.
unlinkSkipped(content) == content
unlink(content) == Absent

\* withStorageLock(fn), up to its return: the chain gets a new promise, which
\* releaseLock of this call resolves, and fn waits for the previous one.
withStorageLock(k, why) ==
    /\ previousMutex' = [previousMutex EXCEPT ![k] = storageMutex]
    /\ releaseLock' = [releaseLock EXCEPT ![k] = storageMutex + 1]
    /\ storageMutex' = storageMutex + 1
    /\ purpose' = [purpose EXCEPT ![k] = why]
    /\ pc' = [pc EXCEPT ![k] = "queued"]

\* saveAccounts(s) by call k, up to its return.
saveAccounts(k, s, why) ==
    /\ withStorageLock(k, why)
    /\ storage' = [storage EXCEPT ![k] = s]
    /\ UNCHANGED <<outcome, counts, imported>>

\* The call k settles.
Settle(k, result) ==
    /\ pc' = [pc EXCEPT ![k] = "done"]
    /\ outcome' = [outcome EXCEPT ![k] = result]
    /\ purpose' = [purpose EXCEPT ![k] = "none"]
    /\ storage' = [storage EXCEPT ![k] = Undefined]
    /\ imported' = [imported EXCEPT ![k] = NotCalled]
    /\ UNCHANGED <<storageMutex, previousMutex, releaseLock, counts>>

\* merged.length > MAX_ACCOUNTS, and then deduped.length > MAX_ACCOUNTS.
ExceedsMaximumNever(merged, deduped) == FALSE
ExceedsMaximum(merged, deduped) ==
    Len(merged) > MAX_ACCOUNTS /\ Len(deduped) > MAX_ACCOUNTS

\* importAccounts once the pools are merged and deduplicated: it throws on
\* too many accounts, or else calls saveAccounts.
importSave(k, existing, existingAccounts, merged, deduplicatedAccounts) ==
    IF ExceedsMaximum(merged, deduplicatedAccounts)
    THEN Settle(k, Rejected([name |-> "Error", message |-> "would exceed maximum"]))
    ELSE /\ withStorageLock(k, "import")
         /\ storage' = [storage EXCEPT ![k] =
                Storage(Num(3), Arr(deduplicatedAccounts),
                        Num(IF existing.kind = "pool" THEN existing.activeIndex ELSE 0),
                        IF existing.kind = "pool"
                        THEN ByFamily([family \in Families |->
                                          Num(existing.activeIndexByFamily[family])])
                        ELSE Undefined)]
         /\ counts' = [counts EXCEPT ![k] =
                [imported |-> Len(deduplicatedAccounts) - Len(existingAccounts),
                 total |-> Len(deduplicatedAccounts),
                 skipped |-> Len(imported[k].accounts)
                             - (Len(deduplicatedAccounts) - Len(existingAccounts))]]
         /\ UNCHANGED <<outcome, imported>>

importDeduplicate(k, existing, existingAccounts, merged) ==
    importSave(k, existing, existingAccounts, merged,
               deduplicateAccountsByEmail(deduplicateAccounts(merged)))

\* importAccounts from the return of its loadAccounts on.
importMerge(k, existing) ==
    IF existing.kind = "pool"
    THEN importDeduplicate(k, existing, existing.accounts,
                           existing.accounts \o imported[k].accounts)
    ELSE importDeduplicate(k, existing, << >>, imported[k].accounts)

\* loadAccounts of call k returns value: to the caller, or into importAccounts.
loadReturns(k, value) ==
    IF op[k] = "load" THEN Settle(k, Resolved(value)) ELSE importMerge(k, value)

\* The saveAccounts of call k settles with result: the promise of the call
\* itself, the migrating save of its loadAccounts (whose failure is logged),
\* or the save of its importAccounts.
saveSettles(k, result) ==
    CASE purpose[k] = "save" -> Settle(k, result)
      [] purpose[k] = "migrate" -> loadReturns(k, loaded[k].value)
      [] purpose[k] = "import" ->
            Settle(k, IF result.kind = "resolved" THEN Resolved(counts[k]) ELSE result)

\* Calls are numbered in the order in which they are made.
CanCall(k) == pc[k] = "idle" /\ \A j \in 1..(k - 1) : pc[j] # "idle"

\* saveAccounts(storage) is called.
CallSave(k, s) ==
    /\ CanCall(k)
    /\ op' = [op EXCEPT ![k] = "save"]
    /\ saveAccounts(k, s, "save")
    /\ UNCHANGED <<normVars, now, utilVars, fsVars, resolved, unlinkFailed, caught, failedAt, loaded,
                   saved, atStart>>

\* clearAccounts() is called.
CallClear(k) ==
    /\ CanCall(k)
    /\ op' = [op EXCEPT ![k] = "clear"]
    /\ withStorageLock(k, "clear")
    /\ UNCHANGED <<normVars, now, utilVars, fsVars, resolved, storage, unlinkFailed, imported,
                   caught, failedAt,
                   loaded, counts, saved, outcome, atStart>>

\* loadAccounts() is called: it asks for the storage file.
CallLoad(k) ==
    /\ CanCall(k)
    /\ op' = [op EXCEPT ![k] = "load"]
    /\ pc' = [pc EXCEPT ![k] = "readFile"]
    /\ UNCHANGED <<normVars, now, utilVars, fsVars, lockVars, purpose, storage, unlinkFailed,
                   imported, caught, failedAt,
                   loaded, counts, saved, outcome, atStart>>

\* importAccounts(filePath) is called on a file that exists and parses to
\* file: it normalizes it and, given a pool, calls loadAccounts.
CallImport(k, file) ==
    /\ CanCall(k)
    /\ op' = [op EXCEPT ![k] = "import"]
    /\ imported' = [imported EXCEPT ![k] = normalizeAccountStorage(file, now)]
    /\ IF imported'[k].kind = "pool"
       THEN /\ pc' = [pc EXCEPT ![k] = "readFile"]
            /\ UNCHANGED outcome
       ELSE /\ pc' = [pc EXCEPT ![k] = "done"]
            /\ outcome' = [outcome EXCEPT ![k] =
                   Rejected([name |-> "Error",
                             message |-> "Invalid account storage format"])]
    /\ UNCHANGED <<normVars, now, utilVars, fsVars, lockVars, purpose, storage, unlinkFailed,
                   caught, failedAt,
                   loaded, counts, saved, atStart>>

\* What loadAccounts makes of normalizeAccountStorage's result: the pool, or
\* null when it returned null or threw.
PoolOrNull(result) == IF result.kind = "pool" THEN result ELSE ReturnedNull

\* fs.readFile of loadAccounts completes: parse, normalize, and either
\* return or save the migrated pool first.
LoadRead(k) ==
    /\ pc[k] = "readFile"
    /\ loaded' = [loaded EXCEPT ![k] =
           [content |-> fsTarget,
            value |-> IF Complete(fsTarget)
                      THEN PoolOrNull(normalizeAccountStorage(fsTarget.json, now))
                      ELSE ReturnedNull]]
    /\ IF /\ loaded'[k].value.kind = "pool"
          /\ ~StrictEq(fsTarget.json.version, Num(loaded'[k].value.version))
       THEN saveAccounts(k, PoolAsData(loaded'[k].value), "migrate")
       ELSE loadReturns(k, loaded'[k].value)
    /\ UNCHANGED <<normVars, now, utilVars, fsVars, resolved, op, unlinkFailed, caught, failedAt,
                   saved, atStart>>

\* The lock is acquired: fn of call k starts and issues its first
\* file-system call (mkdir of saveAccounts, unlink of clearAccounts).
EnterSection(k) ==
    /\ pc[k] = "queued"
    /\ previousMutexResolved(previousMutex[k])
    /\ pc' = [pc EXCEPT ![k] = IF purpose[k] = "clear" THEN "unlinkTarget" ELSE "mkdir"]
    /\ atStart' = [atStart EXCEPT ![k] = fsTarget]
    /\ UNCHANGED <<normVars, now, utilVars, fsVars, lockVars, op, purpose, storage, unlinkFailed,
                   imported,
                   caught, failedAt, loaded, counts, saved, outcome>>

\* A file-system call of saveAccounts throws: control is in the catch block.
Throws(k, step, code) ==
    /\ pc' = [pc EXCEPT ![k] = "catch"]
    /\ caught' = [caught EXCEPT ![k] = code]
    /\ failedAt' = [failedAt EXCEPT ![k] = step]

Proceeds(k, next) ==
    /\ pc' = [pc EXCEPT ![k] = next]
    /\ UNCHANGED <<caught, failedAt>>

\* fs.mkdir(dirname(path)) completes; ensureGitignore returns.
Mkdir(k) ==
    /\ pc[k] = "mkdir"
    /\ \/ Proceeds(k, "writeFile")
       \/ \E code \in ErrnoCodes : Throws(k, "mkdir", code)
    /\ UNCHANGED <<normVars, now, utilVars, fsVars, lockVars, op, purpose, storage, unlinkFailed,
                   imported,
                   loaded, counts, saved, outcome, atStart>>

\* fs.writeFile(tempPath) completes: all of the text is written; or the
\* file system wrote no byte of it and reported none; or the write throws,
\* with no temp file made or with a part of the text in it.
WriteFile(k) ==
    /\ pc[k] = "writeFile"
    /\ \/ /\ Proceeds(k, "stat")
          /\ fsTemp' = File("all", storage[k])
       \/ /\ Proceeds(k, "stat")
          /\ fsTemp' = File("none", storage[k])
       \/ /\ \E code \in ErrnoCodes : Throws(k, "writeFile", code)
          /\ \/ UNCHANGED fsTemp
             \/ fsTemp' = File("part", storage[k])
    /\ UNCHANGED <<normVars, now, utilVars, fsTarget, committed, lockVars, op, purpose, storage,
                   unlinkFailed, imported, loaded, counts, saved, outcome, atStart>>

\* fs.stat(tempPath) completes, and the size is checked.
Stat(k) ==
    /\ pc[k] = "stat"
    /\ \/ IF SizeIsZero(fsTemp)
          THEN Throws(k, "size", "EEMPTY")
          ELSE Proceeds(k, "rename")
       \/ \E code \in ErrnoCodes : Throws(k, "stat", code)
    /\ UNCHANGED <<normVars, now, utilVars, fsVars, lockVars, op, purpose, storage, unlinkFailed,
                   imported,
                   loaded, counts, saved, outcome, atStart>>

\* fs.rename(tempPath, path) succeeds: fn returns, the lock is released and
\* the saveAccounts promise resolves.
RenameDone(k) ==
    /\ pc[k] = "rename"
    /\ fsTarget' = fsTemp
    /\ fsTemp' = Absent
    /\ committed' = committed \cup {fsTemp}
    /\ resolved' = resolved \cup {releaseLock[k]}
    /\ saved' = [saved EXCEPT ![k] = Resolved(Undefined)]
    /\ atStart' = [atStart EXCEPT ![k] = Absent]
    /\ saveSettles(k, Resolved(Undefined))
    /\ UNCHANGED <<normVars, now, utilVars, op, unlinkFailed, caught, failedAt, loaded>>

\* fs.rename(tempPath, path) throws.
RenameFails(k) ==
    /\ pc[k] = "rename"
    /\ \E code \in ErrnoCodes : Throws(k, "rename", code)
    /\ UNCHANGED <<normVars, now, utilVars, fsVars, lockVars, op, purpose, storage, unlinkFailed,
                   imported,
                   loaded, counts, saved, outcome, atStart>>

\* The catch block of saveAccounts: fs.unlink(tempPath) completes.  It
\* removes the temp file; or there is none (ENOENT); or it throws and leaves
\* the file.  The error of the unlink is swallowed.
Catch(k) ==
    /\ pc[k] = "catch"
    /\ \/ fsTemp' = unlink(fsTemp) /\ unlinkFailed' = [unlinkFailed EXCEPT ![k] = FALSE]
       \/ /\ fsTemp # Absent
          /\ UNCHANGED fsTemp
          /\ unlinkFailed' = [unlinkFailed EXCEPT ![k] = TRUE]
    /\ pc' = [pc EXCEPT ![k] = "throw"]
    /\ UNCHANGED <<normVars, now, utilVars, fsTarget, committed, lockVars, op, purpose, storage,
                   imported,
                   caught, failedAt, loaded, counts, saved, outcome, atStart>>

\* .finally(() => releaseLock()) once fn has thrown: the resolved promises.
finallySkipped(k) == resolved
finallyReleaseLock(k) == resolved \cup {releaseLock[k]}

\* The catch block throws the StorageError: the lock is released and the
\* saveAccounts promise rejects.
Throw(k) ==
    /\ pc[k] = "throw"
    /\ resolved' = finallyReleaseLock(k)
    /\ saved' = [saved EXCEPT ![k] = Rejected(StorageError(caught[k]))]
    /\ caught' = [caught EXCEPT ![k] = ""]
    /\ failedAt' = [failedAt EXCEPT ![k] = "none"]
    /\ unlinkFailed' = [unlinkFailed EXCEPT ![k] = FALSE]
    /\ atStart' = [atStart EXCEPT ![k] = Absent]
    /\ saveSettles(k, Rejected(StorageError(caught[k])))
    /\ UNCHANGED <<normVars, now, utilVars, fsVars, op, loaded>>

\* fs.unlink(path) of clearAccounts completes: the file is removed, or was
\* not there, or the unlink throws and the error is logged; fn returns, the
\* lock is released and the clearAccounts promise resolves.
UnlinkTarget(k) ==
    /\ pc[k] = "unlinkTarget"
    /\ \/ fsTarget' = unlink(fsTarget)
       \/ fsTarget # Absent /\ UNCHANGED fsTarget
    /\ resolved' = resolved \cup {releaseLock[k]}
    /\ atStart' = [atStart EXCEPT ![k] = Absent]
    /\ Settle(k, Resolved(Undefined))
    /\ UNCHANGED <<normVars, now, utilVars, fsTemp, committed, op, unlinkFailed, caught, failedAt,
                   loaded, saved>>

InitStorage ==
    /\ data = Null
    /\ normalized = NotCalled
    /\ renormalized = NotCalled
    /\ now = MaxNow
    /\ fsTarget \in InitialFiles
    /\ StoreAtRest
    /\ UtilAtRest

NextStorage ==
    \E k \in Calls :
        \/ \E s \in SaveArguments : CallSave(k, s)
        \/ CallClear(k)
        \/ CallLoad(k)
        \/ \E file \in ImportFiles : CallImport(k, file)
        \/ LoadRead(k)
        \/ EnterSection(k)
        \/ Mkdir(k)
        \/ WriteFile(k)
        \/ Stat(k)
        \/ RenameDone(k)
        \/ RenameFails(k)
        \/ Catch(k)
        \/ Throw(k)
        \/ UnlinkTarget(k)

SpecStorage == InitStorage /\ [][NextStorage]_vars

\* Where a call stands while it holds the lock, and the places of a call.
Holding == {"mkdir", "writeFile", "stat", "rename", "catch", "throw", "unlinkTarget"}
Places == Holding \cup {"idle", "readFile", "queued", "done"}

\* Call k awaits a file-system call, or a promise of the lock chain that is
\* resolved.
Awaited(k) ==
    \/ pc[k] \in Holding \cup {"readFile"}
    \/ pc[k] = "queued" /\ previousMutexResolved(previousMutex[k])

\* The next step of call k: what it awaits settles and its continuation
\* runs, which moves the call, and no other, to another place.  Of the steps
\* of NextStorage these are LoadRead(k), EnterSection(k), Mkdir(k),
\* WriteFile(k), Stat(k), RenameDone(k), RenameFails(k), Catch(k), Throw(k)
\* and UnlinkTarget(k).
StorageStep(k) ==
    /\ Awaited(k)
    /\ \E place \in Places \ {pc[k]} : pc' = [pc EXCEPT ![k] = place]

\* The store when every file-system call terminates, with a result or an
\* error, and the event loop runs the continuation of every settled promise.
SpecStorageFair == SpecStorage /\ \A k \in Calls : WF_pc(StorageStep(k))

(***************************************************************************)
(* importAccounts on a stored v3 pool of two accounts, either of them      *)
(* active, with import files whose accounts duplicate the stored ones.     *)
(***************************************************************************)

\* AccountG has the key of AccountA and is newer; AccountH has the key of
\* AccountE and the email of AccountA and is newer than both; AccountI has the
\* key of AccountA and is older.
AccountG == Account(Str(<<"A">>), Undefined, Str(<<"x">>), 2, 2, Undefined)
AccountH == Account(Str(<<"E">>), Str(<<"e">>), Str(<<"y">>), 2, 2, Undefined)
AccountI == Account(Str(<<"A">>), Undefined, Str(<<"z">>), 0, 0, Undefined)

StoredPools ==
    {File("all", Storage(Num(3), Arr(<<AccountA, AccountE>>), Num(Whole(active)), AllZero)) :
        active \in 0..1}

DuplicatingFiles ==
    {Storage(Num(3), Arr(<<AccountC, AccountD>>), Num(0), Undefined),
     Storage(Num(3), Arr(<<AccountG>>), Num(0), Undefined),
     Storage(Num(3), Arr(<<AccountH>>), Num(0), Undefined),
     Storage(Num(3), Arr(<<AccountI>>), Num(0), Undefined),
     Storage(Num(3), Arr(<<AccountF>>), Num(0), Undefined)}

InitImport ==
    /\ data = Null
    /\ normalized = NotCalled
    /\ renormalized = NotCalled
    /\ now = MaxNow
    /\ fsTarget \in StoredPools
    /\ StoreAtRest
    /\ UtilAtRest

NextImport ==
    \E k \in Calls :
        \/ \E file \in DuplicatingFiles : CallImport(k, file)
        \/ LoadRead(k)
        \/ EnterSection(k)
        \/ Mkdir(k)
        \/ WriteFile(k)
        \/ Stat(k)
        \/ RenameDone(k)
        \/ RenameFails(k)
        \/ Catch(k)
        \/ Throw(k)

SpecImport == InitImport /\ [][NextImport]_vars

(***************************************************************************)
(* CircuitBreaker.  Date.now() is the clock, which never goes back; the    *)
(* breaker is made at time 0.  The configurations are those with every     *)
(* field at least 1.                                                       *)
(***************************************************************************)
MaxThreshold == 2
MaxDuration == 2
MaxAttempts == 2
MaxClock == 4
MaxFailures == 3

Configs ==
    [failureThreshold : 1..MaxThreshold, failureWindowMs : 1..MaxDuration,
     resetTimeoutMs : 1..MaxDuration, halfOpenMaxAttempts : 1..MaxAttempts]

\* The fields of the breaker.
This ==
    [state |-> state, failures |-> failures, lastStateChange |-> lastStateChange,
     halfOpenAttempts |-> halfOpenAttempts]

\* timestamp >= cutoff
AtOrAfterStrictly(timestamp, cutoff) == timestamp > cutoff
AtOrAfter(timestamp, cutoff) == timestamp >= cutoff

pruneFailures(this, t) ==
    [this EXCEPT !.failures =
        SelectSeq(this.failures,
                  LAMBDA timestamp : AtOrAfter(timestamp, t - config.failureWindowMs))]

\* What transitionToOpen does with lastStateChange.
lastStateChangeKept(this, t) == this.lastStateChange
lastStateChangeAtOpen(this, t) == t

transitionToOpen(this, t) ==
    [this EXCEPT !.state = "open", !.lastStateChange = lastStateChangeAtOpen(this, t),
                 !.halfOpenAttempts = 0]

transitionToHalfOpen(this, t) ==
    [this EXCEPT !.state = "half-open", !.lastStateChange = t, !.halfOpenAttempts = 0]

resetToClosed(this, t) ==
    [this EXCEPT !.state = "closed", !.lastStateChange = t, !.halfOpenAttempts = 0,
                 !.failures = << >>]

\* this.halfOpenAttempts >= this.config.halfOpenMaxAttempts
AttemptsUsedNever(this) == FALSE
AttemptsUsed(this) == this.halfOpenAttempts >= config.halfOpenMaxAttempts

\* canExecute() from its second if on: [this, result].
canExecuteHalfOpenLeaving(this) ==
    IF this.state = "half-open"
    THEN IF AttemptsUsed(this)
         THEN [this |-> [this EXCEPT !.state = "open", !.halfOpenAttempts = 0],
               result |-> "CircuitOpenError"]
         ELSE [this |-> [this EXCEPT !.halfOpenAttempts = @ + 1], result |-> "true"]
    ELSE [this |-> this, result |-> "true"]
canExecuteHalfOpen(this) ==
    IF this.state = "half-open"
    THEN IF AttemptsUsed(this)
         THEN [this |-> this, result |-> "CircuitOpenError"]
         ELSE [this |-> [this EXCEPT !.halfOpenAttempts = @ + 1], result |-> "true"]
    ELSE [this |-> this, result |-> "true"]

\* now - this.lastStateChange >= this.config.resetTimeoutMs
ResetTimeoutElapsedStrictly(this, t) == t - this.lastStateChange > config.resetTimeoutMs
ResetTimeoutElapsed(this, t) == t - this.lastStateChange >= config.resetTimeoutMs

\* canExecute(): [this, result].
canExecute(this, t) ==
    IF this.state = "open"
    THEN IF ResetTimeoutElapsed(this, t)
         THEN canExecuteHalfOpen(transitionToHalfOpen(this, t))
         ELSE [this |-> this, result |-> "CircuitOpenError"]
    ELSE canExecuteHalfOpen(this)

recordSuccess(this, t) ==
    IF this.state = "half-open" THEN resetToClosed(this, t)
    ELSE IF this.state = "closed" THEN pruneFailures(this, t)
    ELSE this

\* recordFailure() once the failure is pushed.
recordFailurePushed(this, t) ==
    IF this.state = "half-open" THEN transitionToOpen(this, t)
    ELSE IF this.state = "closed" /\ Len(this.failures) >= config.failureThreshold
    THEN transitionToOpen(this, t)
    ELSE this

recordFailure(this, t) ==
    recordFailurePushed([pruneFailures(this, t) EXCEPT !.failures = Append(@, t)], t)

\* A method is called at the time clock and leaves the breaker as this.
Called(method, this, result) ==
    /\ state' = this.state
    /\ failures' = this.failures
    /\ lastStateChange' = this.lastStateChange
    /\ halfOpenAttempts' = this.halfOpenAttempts
    /\ last' = [op |-> method, before |-> state, result |-> result]
    /\ recorded' =
           IF this.state = "closed" /\ (state # "closed" \/ method = "reset") THEN << >>
           ELSE IF method = "recordFailure" /\ state = "closed" THEN Append(recorded, clock)
           ELSE recorded
    /\ openedAt' = IF this.state = "open" /\ state # "open" THEN clock ELSE openedAt
    /\ trials' =
           IF this.state = "half-open"
           THEN (IF state = "half-open" THEN trials ELSE 0)
                + (IF method = "canExecute" /\ result = "true" THEN 1 ELSE 0)
           ELSE 0
    /\ UNCHANGED <<config, clock, normVars, now, storeVars, nonBreakerVars>>

CanExecute ==
    LET returned == canExecute(This, clock)
    IN  Called("canExecute", returned.this, returned.result)

RecordSuccess ==
    LET this == recordSuccess(This, clock)
    IN  Called("recordSuccess", this, "none")

RecordFailure ==
    /\ Len(failures) < MaxFailures
    /\ Len(recorded) < MaxFailures
    /\ Called("recordFailure", recordFailure(This, clock), "none")

\* reset()
Reset ==
    LET this == resetToClosed(This, clock)
    IN  Called("reset", this, "none")

\* getFailureCount()
GetFailureCount ==
    LET this == pruneFailures(This, clock)
    IN  Called("getFailureCount", this, "none")

\* Time passes.
TickClock ==
    /\ clock < MaxClock
    /\ clock' = clock + 1
    /\ last' = NoCall
    /\ UNCHANGED <<config, state, failures, lastStateChange, halfOpenAttempts, recorded,
                   openedAt, trials, normVars, now, storeVars, nonBreakerVars>>

InitBreaker ==
    /\ data = Null
    /\ normalized = NotCalled
    /\ renormalized = NotCalled
    /\ now = 0
    /\ fsTarget = Absent
    /\ StoreAtRest
    /\ ShutdownLoaded
    /\ \E c \in Configs : NewBreaker(c)
    /\ EmptyRegistry
    /\ NotProbing
    /\ NotSelecting
    /\ LimitersAtRest

NextBreaker ==
    \/ CanExecute
    \/ RecordSuccess
    \/ RecordFailure
    \/ Reset
    \/ GetFailureCount
    \/ TickClock

SpecBreaker == InitBreaker /\ [][NextBreaker]_vars

(***************************************************************************)
(* getCircuitBreaker.  The keys asked for are new keys "1", "2", ... in     *)
(* turn and, before the Map holds MaxEarly entries and once it is one      *)
(* short of MAX_CIRCUIT_BREAKERS, also the empty key, the first and the    *)
(* last key of the Map and the key evicted last.                           *)
(***************************************************************************)
MAX_CIRCUIT_BREAKERS == 100

MaxGets == 103
MaxEarly == 1

\* circuitBreakers.get(key): the breaker, or 0 for undefined.
RegistryGet(map, key) ==
    IF \E i \in 1..Len(map) : map[i].key = key
    THEN map[CHOOSE i \in 1..Len(map) : map[i].key = key].breaker
    ELSE 0

\* circuitBreakers.delete(key)
RegistryDelete(map, key) == SelectSeq(map, LAMBDA entry : entry.key # key)

\* circuitBreakers.keys().next().value
newestKey(map) == map[Len(map)].key
firstKey(map) == map[1].key

\* if (firstKey): a string is truthy unless it is empty.
KeyTruthy(key) == key # ""

\* The Map once getCircuitBreaker has made room for a new key.
RegistryEvict(map) ==
    IF Len(map) >= MAX_CIRCUIT_BREAKERS /\ KeyTruthy(firstKey(map))
    THEN RegistryDelete(map, firstKey(map))
    ELSE map

\* The keys a call may ask for.
RequestedKeys ==
    {ToString(created + 1)}
        \cup (IF Len(circuitBreakers) < MaxEarly
                 \/ Len(circuitBreakers) >= MAX_CIRCUIT_BREAKERS - 1
              THEN {""}
                       \cup (IF circuitBreakers = << >> THEN {}
                             ELSE {firstKey(circuitBreakers), newestKey(circuitBreakers)})
                       \cup (IF evicted.kind = "none" THEN {} ELSE {evicted.key})
              ELSE {})

\* asked, for the keys of the Map map, with the call for key entered.
Asking(map, key, breaker) ==
    [k \in {map[i].key : i \in 1..Len(map)} |->
        IF k = key THEN [at |-> gets + 1, breaker |-> breaker] ELSE asked[k]]

\* getCircuitBreaker(key) finds a breaker under the key.
RegistryFinds(key) ==
    /\ gets < MaxGets
    /\ RegistryGet(circuitBreakers, key) # 0
    /\ gets' = gets + 1
    /\ asked' = Asking(circuitBreakers, key, RegistryGet(circuitBreakers, key))
    /\ UNCHANGED <<circuitBreakers, created, evicted>>

GetBreaker(key) ==
    /\ RegistryFinds(key)
    /\ UNCHANGED <<normVars, now, storeVars, nonRegistryVars>>

\* getCircuitBreaker(key) finds none: it makes room, and makes a breaker.
RegistryAdds(key) ==
    /\ gets < MaxGets
    /\ RegistryGet(circuitBreakers, key) = 0
    /\ gets' = gets + 1
    /\ created' = created + 1
    /\ circuitBreakers' =
           Append(RegistryEvict(circuitBreakers), [key |-> key, breaker |-> created + 1])
    /\ evicted' =
           IF Len(RegistryEvict(circuitBreakers)) < Len(circuitBreakers)
           THEN LET gone == CHOOSE i \in 1..Len(circuitBreakers) :
                               \A j \in 1..Len(RegistryEvict(circuitBreakers)) :
                                   RegistryEvict(circuitBreakers)[j].key
                                       # circuitBreakers[i].key
                IN  [kind |-> "some", key |-> circuitBreakers[gone].key,
                     breaker |-> circuitBreakers[gone].breaker,
                     at |-> asked[circuitBreakers[gone].key].at]
           ELSE evicted
    /\ asked' = Asking(circuitBreakers', key, created + 1)

GetNewBreaker(key) ==
    /\ RegistryAdds(key)
    /\ UNCHANGED <<normVars, now, storeVars, nonRegistryVars>>

InitRegistry ==
    /\ data = Null
    /\ normalized = NotCalled
    /\ renormalized = NotCalled
    /\ now = 0
    /\ fsTarget = Absent
    /\ StoreAtRest
    /\ UtilAtRest

NextRegistry ==
    \/ \E key \in RequestedKeys : GetBreaker(key)
    \/ \E key \in RequestedKeys : GetNewBreaker(key)

SpecRegistry == InitRegistry /\ [][NextRegistry]_vars

(***************************************************************************)
(* The registry with the breaker of one account.  The variables of the     *)
(* breaker are those of the breaker that the Map holds, or held last,      *)
(* under the key of the account, which is the first key asked for.         *)
(***************************************************************************)

\* `account:${acc.accountId ?? acc.index}` of the account.
circuitKey == "1"

\* The account is used, and its health reported, while the Map holds few
\* keys and once it is one short of MAX_CIRCUIT_BREAKERS.
AccountInUse ==
    \/ Len(circuitBreakers) <= MaxEarly
    \/ Len(circuitBreakers) >= MAX_CIRCUIT_BREAKERS - 1

\* getAccountHealth([acc]) finds the breaker of the account and reports its
\* state.
GetAccountHealthFound ==
    /\ AccountInUse
    /\ RegistryFinds(circuitKey)
    /\ last' = [op |-> "getAccountHealth", before |-> state, result |-> state]
    /\ UNCHANGED <<config, state, failures, lastStateChange, halfOpenAttempts, clock,
                   recorded, openedAt, trials>>
    /\ UNCHANGED <<normVars, now, storeVars, probeVars, selectVars, limitVars,
                   shutdownVars>>

\* getAccountHealth([acc]) finds no breaker under the key of the account:
\* getCircuitBreaker makes one, whose state it reports.
GetAccountHealthMade ==
    /\ created > 0
    /\ RegistryAdds(circuitKey)
    /\ state' = "closed"
    /\ failures' = << >>
    /\ lastStateChange' = clock
    /\ halfOpenAttempts' = 0
    /\ recorded' = << >>
    /\ trials' = 0
    /\ last' = [op |-> "getAccountHealth", before |-> state, result |-> "closed"]
    /\ UNCHANGED <<config, clock, openedAt>>
    /\ UNCHANGED <<normVars, now, storeVars, probeVars, selectVars, limitVars,
                   shutdownVars>>

\* getCircuitBreaker(circuitKey).recordFailure() by a caller that holds the
\* breaker of the account.
AccountFails ==
    /\ AccountInUse
    /\ RegistryGet(circuitBreakers, circuitKey) # 0
    /\ RecordFailure

\* Keys are asked for, the account fails, and its health is reported; no
\* time passes, and nothing resets the breaker or records a success.
NextAccountBreaker ==
    \/ \E key \in RequestedKeys : GetBreaker(key)
    \/ \E key \in RequestedKeys :
           (key # circuitKey \/ created = 0) /\ GetNewBreaker(key)
    \/ AccountFails
    \/ GetAccountHealthFound
    \/ GetAccountHealthMade

SpecAccountBreaker == InitRegistry /\ [][NextAccountBreaker]_vars

(***************************************************************************)
(* probeAccountsInParallel.  A candidate is an account, of which the       *)
(* prober reads the index, and a controller, which is named by the place   *)
(* of the candidate in the list.  A promise job runs when it is the first  *)
(* of the job queue; the promise of a probe settles at any time.           *)
(***************************************************************************)
AccountIndexes == 0..(MaxCandidates - 1)
Responses == {"B", "C"}

\* The lists of candidates: accounts of one account manager, each at most
\* once.
CandidateLists ==
    LET indexes == {list \in UNION {[1..n -> AccountIndexes] : n \in 0..MaxCandidates} :
                       \A i, j \in DOMAIN list : i # j => list[i] # list[j]}
    IN  {[c \in DOMAIN list |-> [account |-> [index |-> list[c]]]] : list \in indexes}

\* resolve(value) of a promise, and the return of an async function: a promise
\* that is settled stays as it is.
Resolve(p, value) == IF p.state = "pending" THEN Fulfilled(value) ELSE p

\* if (!winner)
NoWinnerAlways(w) == TRUE
NoWinner(w) == w = Null

\* if (c.account.index !== account.index)
IsOtherAlways(c, account) == TRUE
IsOther(c, account) == c.account.index # account.index

\* resolvedCount === candidates.length
AnyRejected(count, length) == count >= 1
AllRejected(count, length) == count = length

\* A job for the handlers of the promise of candidate c.
Job(c, handler) == [candidate |-> c, handler |-> handler]

\* The job that runs next is the handler of candidate c.
Runs(c, handler) ==
    /\ microtasks # << >>
    /\ Head(microtasks) = Job(c, handler)

\* probeAccountsInParallel(list, probeFn) up to its return: with no candidate
\* it returns null; with one it calls probeFn and awaits; with more it calls
\* probeFn for each candidate in turn and returns the new promise.
CallProbe(list) ==
    /\ promise.state = "none"
    /\ candidates' = list
    /\ probes' = [c \in 1..MaxCandidates |-> IF c <= Len(list) THEN Pending ELSE probes[c]]
    /\ promise' = IF Len(list) = 0 THEN Fulfilled(Null) ELSE Pending
    /\ resolveCalls' = IF Len(list) = 0 THEN 1 ELSE 0
    /\ UNCHANGED <<microtasks, winner, resolvedCount, aborts, fulfilledOrder>>
    /\ UNCHANGED <<normVars, now, storeVars, nonProbeVars>>

\* The handler of the promise of candidate c that is queued when it settles.
FirstHandler == IF Len(candidates) = 1 THEN "await" ELSE "then"

\* The promise that probeFn returned for candidate c is fulfilled.
ProbeFulfils(c, response) ==
    /\ c <= Len(candidates)
    /\ probes[c] = Pending
    /\ probes' = [probes EXCEPT ![c] = Fulfilled(response)]
    /\ microtasks' = Append(microtasks, Job(c, FirstHandler))
    /\ fulfilledOrder' = Append(fulfilledOrder, c)
    /\ UNCHANGED <<candidates, winner, resolvedCount, promise, resolveCalls, aborts>>
    /\ UNCHANGED <<normVars, now, storeVars, nonProbeVars>>

\* The promise that probeFn returned for candidate c is rejected.
ProbeRejects(c) ==
    /\ c <= Len(candidates)
    /\ probes[c] = Pending
    /\ probes' = [probes EXCEPT ![c] = RejectedWith("E")]
    /\ microtasks' = Append(microtasks, Job(c, FirstHandler))
    /\ UNCHANGED <<candidates, winner, resolvedCount, promise, resolveCalls, aborts,
                   fulfilledOrder>>
    /\ UNCHANGED <<normVars, now, storeVars, nonProbeVars>>

\* { type: "success", account, response }
Success(account, response) == [type |-> "success", account |-> account, response |-> response]

\* { type: "failure", account, error }
FailureDropped(account, error) == Null
Failure(account, error) == [type |-> "failure", account |-> account, error |-> error]

\* One candidate: the await ends, and the function returns the result.
AwaitEnds(c) ==
    /\ Runs(c, "await")
    /\ microtasks' = Tail(microtasks)
    /\ promise' =
           Resolve(promise,
                   IF probes[c].state = "fulfilled"
                   THEN Success(candidates[c].account, probes[c].value)
                   ELSE Failure(candidates[c].account, probes[c].error))
    /\ resolveCalls' = resolveCalls + 1
    /\ UNCHANGED <<candidates, probes, winner, resolvedCount, aborts, fulfilledOrder>>
    /\ UNCHANGED <<normVars, now, storeVars, nonProbeVars>>

\* The controllers once the handler of candidate c has aborted the others.
abortOthers(c) ==
    [d \in 1..MaxCandidates |->
        IF d <= Len(candidates) /\ IsOther(candidates[d], candidates[c].account)
        THEN Append(aborts[d], c)
        ELSE aborts[d]]

\* .then((response) => ...) for candidate c, whose probe succeeded.
OnFulfilled(c) ==
    /\ Runs(c, "then")
    /\ probes[c].state = "fulfilled"
    /\ microtasks' = Tail(microtasks)
    /\ IF NoWinner(winner)
       THEN /\ winner' = Success(candidates[c].account, probes[c].value)
            /\ aborts' = abortOthers(c)
            /\ promise' = Resolve(promise, winner')
            /\ resolveCalls' = resolveCalls + 1
       ELSE UNCHANGED <<winner, aborts, promise, resolveCalls>>
    /\ UNCHANGED <<candidates, probes, resolvedCount, fulfilledOrder>>
    /\ UNCHANGED <<normVars, now, storeVars, nonProbeVars>>

\* .then(...) for candidate c with no .catch(...) chained to it.
ThenRejectsUnhandled(c) ==
    /\ Runs(c, "then")
    /\ probes[c].state = "rejected"
    /\ microtasks' = Tail(microtasks)
    /\ UNCHANGED <<candidates, probes, winner, resolvedCount, promise, resolveCalls,
                   aborts, fulfilledOrder>>
    /\ UNCHANGED <<normVars, now, storeVars, nonProbeVars>>

\* .then(...) for candidate c, whose probe failed: it has no handler for a
\* rejection, so the promise it made is rejected and the .catch job is queued.
ThenRejects(c) ==
    /\ Runs(c, "then")
    /\ probes[c].state = "rejected"
    /\ microtasks' = Append(Tail(microtasks), Job(c, "catch"))
    /\ UNCHANGED <<candidates, probes, winner, resolvedCount, promise, resolveCalls,
                   aborts, fulfilledOrder>>
    /\ UNCHANGED <<normVars, now, storeVars, nonProbeVars>>

\* .catch((_error) => ...) for candidate c.
OnRejected(c) ==
    /\ Runs(c, "catch")
    /\ microtasks' = Tail(microtasks)
    /\ resolvedCount' = resolvedCount + 1
    /\ IF AllRejected(resolvedCount', Len(candidates)) /\ NoWinner(winner)
       THEN /\ promise' = Resolve(promise, Null)
            /\ resolveCalls' = resolveCalls + 1
       ELSE UNCHANGED <<promise, resolveCalls>>
    /\ UNCHANGED <<candidates, probes, winner, aborts, fulfilledOrder>>
    /\ UNCHANGED <<normVars, now, storeVars, nonProbeVars>>

InitProbe ==
    /\ data = Null
    /\ normalized = NotCalled
    /\ renormalized = NotCalled
    /\ now = 0
    /\ fsTarget = Absent
    /\ StoreAtRest
    /\ UtilAtRest

NextProbe ==
    \/ \E list \in CandidateLists : CallProbe(list)
    \/ \E c \in 1..MaxCandidates, response \in Responses : ProbeFulfils(c, response)
    \/ \E c \in 1..MaxCandidates : ProbeRejects(c)
    \/ \E c \in 1..MaxCandidates : AwaitEnds(c)
    \/ \E c \in 1..MaxCandidates : OnFulfilled(c)
    \/ \E c \in 1..MaxCandidates : ThenRejects(c)
    \/ \E c \in 1..MaxCandidates : OnRejected(c)

SpecProbe == InitProbe /\ [][NextProbe]_vars

\* The job at the head of the queue runs: the event loop runs the jobs of the
\* microtask queue in turn, and each handler returns.
RunJob ==
    \E c \in 1..MaxCandidates :
        AwaitEnds(c) \/ OnFulfilled(c) \/ ThenRejects(c) \/ OnRejected(c)

\* The probes under an event loop that keeps running the queued jobs.  Whether
\* a probe settles is left to probeFn.
SpecProbeFair == SpecProbe /\ WF_vars(RunJob)

(***************************************************************************)
(* The health tracker and the token bucket tracker.  Time is Date.now()    *)
(* in units of 30 seconds; a health score is kept in units of 1/HOUR of a  *)
(* point, so that the recovery of 30 seconds is a whole number.            *)
(***************************************************************************)
MINUTE == 2
HOUR == 60 * MINUTE

DEFAULT_HEALTH_SCORE_CONFIG ==
    [successDelta |-> 5, rateLimitDelta |-> -20, failureDelta |-> -10,
     maxScore |-> 100, minScore |-> 0, passiveRecoveryPerHour |-> 2]

DEFAULT_TOKEN_BUCKET_CONFIG == [maxTokens |-> 50, tokensPerMinute |-> 6]

\* n points of health.
Points(n) == n * HOUR

\* Passive recovery: the entry at time t.
applyPassiveRecovery(entry, t) ==
    [entry EXCEPT
        !.score = Min(Points(DEFAULT_HEALTH_SCORE_CONFIG.maxScore),
                      @ + DEFAULT_HEALTH_SCORE_CONFIG.passiveRecoveryPerHour
                              * (t - entry.lastUpdate)),
        !.lastUpdate = t]

\* The health record of a key at time t: a fresh one if the tracker has none.
healthRecord(tracker, key, t) ==
    IF tracker[key] = NoEntry
    THEN [score |-> Points(DEFAULT_HEALTH_SCORE_CONFIG.maxScore),
          consecutiveFailures |-> 0, lastUpdate |-> t]
    ELSE applyPassiveRecovery(tracker[key], t)

\* getScore(index, quotaKey): what it returns, and the tracker after it.
getScore(tracker, key, t) == healthRecord(tracker, key, t).score
getScoreStoredNever(tracker, key, t) == tracker
getScoreStored(tracker, key, t) ==
    IF tracker[key] = NoEntry THEN tracker
    ELSE [tracker EXCEPT ![key] = applyPassiveRecovery(@, t)]

\* score + delta, kept within [minScore, maxScore].
clampScoreAbove(score) == Min(Points(DEFAULT_HEALTH_SCORE_CONFIG.maxScore), score)
clampScore(score) ==
    Max(Points(DEFAULT_HEALTH_SCORE_CONFIG.minScore),
        Min(Points(DEFAULT_HEALTH_SCORE_CONFIG.maxScore), score))

\* recordSuccess(index, quotaKey) of the health tracker
healthRecordSuccess(tracker, key, t) ==
    [tracker EXCEPT ![key] =
        [healthRecord(tracker, key, t) EXCEPT
            !.score = clampScore(@ + Points(DEFAULT_HEALTH_SCORE_CONFIG.successDelta)),
            !.consecutiveFailures = 0]]

\* recordRateLimit(index, quotaKey)
healthRecordRateLimit(tracker, key, t) ==
    [tracker EXCEPT ![key] =
        [healthRecord(tracker, key, t) EXCEPT
            !.score = clampScore(@ + Points(DEFAULT_HEALTH_SCORE_CONFIG.rateLimitDelta)),
            !.consecutiveFailures = @ + 1]]

\* recordFailure(index, quotaKey) of the health tracker
healthRecordFailure(tracker, key, t) ==
    [tracker EXCEPT ![key] =
        [healthRecord(tracker, key, t) EXCEPT
            !.score = clampScore(@ + Points(DEFAULT_HEALTH_SCORE_CONFIG.failureDelta)),
            !.consecutiveFailures = @ + 1]]

\* The bucket of a key at time t, refilled: a fresh one if the tracker has
\* none.
refill(tracker, key, t) ==
    IF tracker[key] = NoEntry
    THEN [tokens |-> DEFAULT_TOKEN_BUCKET_CONFIG.maxTokens, lastRefill |-> t]
    ELSE [tokens |-> Min(DEFAULT_TOKEN_BUCKET_CONFIG.maxTokens,
                         tracker[key].tokens
                             + (DEFAULT_TOKEN_BUCKET_CONFIG.tokensPerMinute
                                    * (t - tracker[key].lastRefill)) \div MINUTE),
          lastRefill |-> t]

\* getTokens(index, quotaKey): what it returns, and the tracker after it.
getTokens(tracker, key, t) == refill(tracker, key, t).tokens
getTokensStored(tracker, key, t) ==
    IF tracker[key] = NoEntry THEN tracker ELSE [tracker EXCEPT ![key] = refill(tracker, key, t)]

\* drain(index, quotaKey, n)
drain(tracker, key, n, t) ==
    [tracker EXCEPT ![key] = [refill(tracker, key, t) EXCEPT !.tokens = Max(0, @ - n)]]

(***************************************************************************)
(* The rate limits of an account, and getTopCandidates.  An account is a   *)
(* record of index, lastUsed and rateLimitResetTimes, with the field       *)
(* coolingDownUntil if it is defined; rateLimitResetTimes is a function    *)
(* from the keys it has to their reset times.                              *)
(***************************************************************************)

\* getQuotaKey(family, model): a model that is null or empty is left out.
getQuotaKey(family, model) == IF model # "" THEN family \o ":" \o model ELSE family

\* now >= resetTime
ExpiredStrictly(t, resetTime) == t > resetTime
Expired(t, resetTime) == t >= resetTime

\* clearExpiredRateLimits(entity): the entity after it.
clearExpiredRateLimits(entity, t) ==
    [entity EXCEPT !.rateLimitResetTimes =
        [key \in {k \in DOMAIN @ : ~Expired(t, @[k])} |-> @[key]]]

\* isRateLimitedForQuotaKey(entity, key)
isRateLimitedForQuotaKey(entity, key, t) ==
    /\ key \in DOMAIN entity.rateLimitResetTimes
    /\ t < entity.rateLimitResetTimes[key]

\* isRateLimitedForFamily(entity, family, model), for the entity as
\* clearExpiredRateLimits leaves it.
isRateLimitedForFamilyOnly(entity, family, model, t) ==
    isRateLimitedForQuotaKey(entity, getQuotaKey(family, ""), t)
isRateLimitedForFamily(entity, family, model, t) ==
    \/ /\ model # ""
       /\ isRateLimitedForQuotaKey(entity, getQuotaKey(family, model), t)
    \/ isRateLimitedForQuotaKey(entity, getQuotaKey(family, ""), t)

\* account.coolingDownUntil !== undefined && account.coolingDownUntil > Date.now()
isCoolingDown(account, t) ==
    /\ "coolingDownUntil" \in DOMAIN account
    /\ account.coolingDownUntil > t

\* !isRateLimited && !isCoolingDown, for the account at a place of the list.
isAvailable(accounts, place, family, model, t) ==
    /\ ~isRateLimitedForFamily(clearExpiredRateLimits(accounts[place], t), family, model, t)
    /\ ~isCoolingDown(accounts[place], t)

\* health * 2 + tokens * 5 + hoursSinceUsed * 2.0, in units of 1/HOUR.
hybridScore(account, health, tokens, key, t) ==
    2 * getScore(health, <<account.index, key>>, t)
        + 5 * Points(getTokens(tokens, <<account.index, key>>, t))
        + 2 * (t - account.lastUsed)

\* (a, b) => b.score - a.score
compareScoreAscending(a, b) == a - b
compareScore(a, b) == b - a

\* Array.prototype.sort with compareScore, which is stable: the places of
\* the list, each with its score, in the order of the sorted list.
sortByScore(places, score(_)) ==
    LET before(i) ==
            {j \in 1..Len(places) :
                \/ compareScore(score(places[j]), score(places[i])) < 0
                \/ /\ compareScore(score(places[j]), score(places[i])) = 0
                   /\ j < i}
    IN  [n \in 1..Len(places) |->
            places[CHOOSE i \in 1..Len(places) : Cardinality(before(i)) = n - 1]]

\* slice(0, maxCandidates), maxCandidates being 0 or more
sliceAll(list, maxCandidates) == list
slice(list, maxCandidates) == SubSeq(list, 1, Min(Len(list), maxCandidates))

\* The places of the accounts of the list that are available, in its order.
availablePlaces(accounts, family, model, t) ==
    SelectSeq([place \in 1..Len(accounts) |-> place],
              LAMBDA place : isAvailable(accounts, place, family, model, t))

\* A tracker after the function of getStored was called for every account
\* at the places, under the key.
RECURSIVE readAll(_, _, _, _, _, _)
readAll(getStored(_, _, _), tracker, accounts, places, key, t) ==
    IF places = << >> THEN tracker
    ELSE readAll(getStored, getStored(tracker, <<accounts[Head(places)].index, key>>, t),
                 accounts, Tail(places), key, t)

\* getTopCandidates(accountManager, modelFamily, model, maxCandidates): the
\* places in the snapshot of the accounts it returns, in the order of the
\* list it returns.
getTopCandidates(accounts, health, tokens, family, model, maxCandidates, t) ==
    slice(sortByScore(availablePlaces(accounts, family, model, t),
                      LAMBDA place :
                          hybridScore(accounts[place], health, tokens,
                                      getQuotaKey(family, model), t)),
          maxCandidates)

(***************************************************************************)
(* selectHybridAccount(accounts, healthTracker, tokenTracker, quotaKey),   *)
(* whose accounts are records of index, isAvailable and lastUsed.          *)
(***************************************************************************)

\* Ties resolved by lower index.
higherIndex(a, b) == a.index > b.index
lowerIndex(a, b) == a.index < b.index

\* The score of the account at a place of the list.
metricScore(accounts, place, health, tokens, key, t) ==
    hybridScore(accounts[place], health, tokens, key, t)

\* The place in the list of the account selected, or 0 for null: with no
\* account null; with none available the least recently used one; otherwise
\* the available one of maximum score.
selectHybridAccount(accounts, health, tokens, key, t) ==
    LET places == 1..Len(accounts)
        available == {place \in places : accounts[place].isAvailable}
        wins(p, q) ==
            \/ metricScore(accounts, p, health, tokens, key, t)
                   > metricScore(accounts, q, health, tokens, key, t)
            \/ /\ metricScore(accounts, p, health, tokens, key, t)
                      = metricScore(accounts, q, health, tokens, key, t)
               /\ \/ lowerIndex(accounts[p], accounts[q])
                  \/ accounts[p].index = accounts[q].index /\ p <= q
        older(p, q) ==
            \/ accounts[p].lastUsed < accounts[q].lastUsed
            \/ accounts[p].lastUsed = accounts[q].lastUsed /\ p <= q
    IN  IF accounts = << >> THEN 0
        ELSE IF available = {} THEN CHOOSE p \in places : \A q \in places : older(p, q)
        ELSE CHOOSE p \in available : \A q \in available : wins(p, q)

(***************************************************************************)
(* The selection engine at work: the caller reports outcomes to the        *)
(* trackers, time passes, and selections are made from the pool.           *)
(***************************************************************************)
MaxReports == 1
MaxElapsed == 1
\* The numbers of tokens the caller drains at once.
Drains == {4}

\* A reset time that is in the future all along.
Later == MaxElapsed + 1

\* The accounts a pool may hold at an index: the first one was used ten
\* hours before the others, which makes up for one failure or for the tokens
\* drained at once.
PoolAccounts(index) ==
    LET account(lastUsed, limits) ==
            [index |-> index, lastUsed |-> lastUsed, rateLimitResetTimes |-> limits]
        none == [key \in {} |-> 0]
    IN  CASE index = 0 ->
                 {account(-10 * HOUR, none), account(-10 * HOUR, [key \in {"codex"} |-> 1])}
          [] index = 1 ->
                 {account(0, none), account(0, [key \in {"codex:m"} |-> Later]),
                  [index |-> 1, lastUsed |-> 0, rateLimitResetTimes |-> none,
                   coolingDownUntil |-> 1]}
          [] OTHER -> {account(0, [key \in {"codex:m"} |-> 0])}

\* The snapshots: the accounts of the manager, each at its index.
Pools ==
    UNION {{accounts \in [1..n -> UNION {PoolAccounts(i) : i \in 0..(MaxPool - 1)}] :
               \A place \in 1..n : accounts[place] \in PoolAccounts(place - 1)} :
           n \in 0..MaxPool}

Models == {"", "m"}

\* The keys under which the caller reports.
ReportKeys == {<<0, "codex">>, <<1, "codex">>, <<1, "codex:m">>}

\* The caller reports a success, a rate limit or a failure to the health
\* tracker.
ReportHealth(key, after) ==
    /\ reports < MaxReports
    /\ Len(pool) > key[1]
    /\ reports' = reports + 1
    /\ healthTracker' = after
    /\ UNCHANGED <<pool, tokenTracker, selection>>
    /\ UNCHANGED <<normVars, now, storeVars, breakerVars, registryVars, probeVars, limitVars,
                   shutdownVars>>

RecordHealthFailure(key) == ReportHealth(key, healthRecordFailure(healthTracker, key, clock))

\* The caller drains tokens.
Drain(key, n) ==
    /\ reports < MaxReports
    /\ Len(pool) > key[1]
    /\ reports' = reports + 1
    /\ tokenTracker' = drain(tokenTracker, key, n, clock)
    /\ UNCHANGED <<pool, healthTracker, selection>>
    /\ UNCHANGED <<normVars, now, storeVars, breakerVars, registryVars, probeVars, limitVars,
                   shutdownVars>>

\* getTopCandidates is called: it clears the expired rate limits of every
\* account of the snapshot and, if an account is available, reads the score
\* and the tokens of each available one.
GetTopCandidates(family, model, maxCandidates) ==
    /\ selection = NoSelection
    /\ pool' = [place \in 1..Len(pool) |-> clearExpiredRateLimits(pool[place], clock)]
    /\ healthTracker' =
           readAll(getScoreStored, healthTracker, pool,
                   availablePlaces(pool, family, model, clock),
                   getQuotaKey(family, model), clock)
    /\ tokenTracker' =
           readAll(getTokensStored, tokenTracker, pool,
                   availablePlaces(pool, family, model, clock),
                   getQuotaKey(family, model), clock)
    /\ selection' =
           [op |-> "getTopCandidates", family |-> family, model |-> model,
            maxCandidates |-> maxCandidates, at |-> clock, accounts |-> pool,
            health |-> healthTracker, tokens |-> tokenTracker, breaker |-> state,
            result |-> getTopCandidates(pool, healthTracker, tokenTracker, family, model,
                                        maxCandidates, clock)]
    /\ UNCHANGED reports
    /\ UNCHANGED <<normVars, now, storeVars, breakerVars, registryVars, probeVars, limitVars,
                   shutdownVars>>

\* The accounts of the pool as selectHybridAccount takes them.
Metrics(accounts, availability) ==
    [place \in 1..Len(accounts) |->
        [index |-> accounts[place].index, isAvailable |-> availability[place],
         lastUsed |-> accounts[place].lastUsed]]

\* What the caller may say of the availability of the accounts of the pool:
\* what it is, or that none is available.
Availabilities(key) ==
    {[place \in 1..Len(pool) |-> isAvailable(pool, place, "codex", "", clock)],
     [place \in 1..Len(pool) |-> FALSE]}

\* selectHybridAccount is called.
SelectHybridAccount(key, availability) ==
    /\ selection = NoSelection
    /\ healthTracker' =
           readAll(getScoreStored, healthTracker, pool,
                   SelectSeq([place \in 1..Len(pool) |-> place],
                             LAMBDA place : availability[place]),
                   key, clock)
    /\ tokenTracker' =
           readAll(getTokensStored, tokenTracker, pool,
                   SelectSeq([place \in 1..Len(pool) |-> place],
                             LAMBDA place : availability[place]),
                   key, clock)
    /\ selection' =
           [op |-> "selectHybridAccount", accounts |-> Metrics(pool, availability),
            key |-> key, at |-> clock, health |-> healthTracker, tokens |-> tokenTracker,
            result |-> selectHybridAccount(Metrics(pool, availability), healthTracker,
                                           tokenTracker, key, clock)]
    /\ UNCHANGED <<pool, reports>>
    /\ UNCHANGED <<normVars, now, storeVars, breakerVars, registryVars, probeVars, limitVars,
                   shutdownVars>>

InitSelect ==
    /\ data = Null
    /\ normalized = NotCalled
    /\ renormalized = NotCalled
    /\ now = 0
    /\ fsTarget = Absent
    /\ StoreAtRest
    /\ ShutdownLoaded
    /\ NewBreaker(DEFAULT_CIRCUIT_BREAKER_CONFIG)
    /\ EmptyRegistry
    /\ NotProbing
    /\ LimitersAtRest
    /\ pool \in Pools
    /\ healthTracker = [k \in TrackerKeys |-> NoEntry]
    /\ tokenTracker = [k \in TrackerKeys |-> NoEntry]
    /\ selection = NoSelection
    /\ reports = 0

\* Time passes.
TimePasses ==
    /\ clock < MaxElapsed
    /\ clock' = clock + 1
    /\ UNCHANGED <<config, state, failures, lastStateChange, halfOpenAttempts, last,
                   recorded, openedAt, trials>>
    /\ UNCHANGED <<normVars, now, storeVars, registryVars, probeVars, selectVars, limitVars,
                   shutdownVars>>

NextSelect ==
    \/ \E key \in ReportKeys : RecordHealthFailure(key)
    \/ \E key \in ReportKeys, n \in Drains : Drain(key, n)
    \/ TimePasses
    \/ \E model \in Models, maxCandidates \in {0, 1, MaxPool} :
           GetTopCandidates("codex", model, maxCandidates)
    \/ \E key \in QuotaKeys : \E availability \in Availabilities(key) :
           SelectHybridAccount(key, availability)

SpecSelect == InitSelect /\ [][NextSelect]_vars

\* The selection engine with the circuit breaker of the account of index 0,
\* which is registered under the key account:<id> of that account: calls
\* fail, time passes, and getTopCandidates is called.
NextSelectGuarded ==
    \/ RecordFailure
    \/ TimePasses
    \/ \E model \in Models, maxCandidates \in {0, 1, MaxPool} :
           GetTopCandidates("codex", model, maxCandidates)

SpecSelectGuarded == InitSelect /\ [][NextSelectGuarded]_vars

(***************************************************************************)
(* The health tracker on its own: the calls made to it, hours apart.       *)
(***************************************************************************)

MaxHealthCalls == 6
MaxIdleHours == 8

\* The keys the calls are made for.
HealthKeys == {<<0, "codex:m">>}

\* The hours that pass in one step.
IdleHours == {1, 6}

\* A call to the health tracker for a key: the tracker after it, the score
\* that getScore would have returned just before it, and what it returns.
HealthCall(name, key, after, result) ==
    /\ reports < MaxHealthCalls
    /\ reports' = reports + 1
    /\ healthTracker' = after
    /\ selection' = [op |-> name, key |-> key, at |-> clock,
                     before |-> getScore(healthTracker, key, clock),
                     result |-> result]
    /\ UNCHANGED <<pool, tokenTracker>>
    /\ UNCHANGED <<normVars, now, storeVars, breakerVars, registryVars, probeVars, limitVars,
                   shutdownVars>>

HealthRecordSuccess(key) ==
    HealthCall("recordSuccess", key, healthRecordSuccess(healthTracker, key, clock), Undefined)

HealthRecordRateLimit(key) ==
    HealthCall("recordRateLimit", key, healthRecordRateLimit(healthTracker, key, clock),
               Undefined)

HealthRecordFailure(key) ==
    HealthCall("recordFailure", key, healthRecordFailure(healthTracker, key, clock), Undefined)

HealthGetScore(key) ==
    HealthCall("getScore", key, getScoreStored(healthTracker, key, clock),
               getScore(healthTracker, key, clock))

\* Hours pass between two calls.
HoursPass(hours) ==
    /\ clock + hours * HOUR <= MaxIdleHours * HOUR
    /\ clock' = clock + hours * HOUR
    /\ selection' = NoSelection
    /\ UNCHANGED <<config, state, failures, lastStateChange, halfOpenAttempts, last,
                   recorded, openedAt, trials>>
    /\ UNCHANGED <<pool, healthTracker, tokenTracker, reports>>
    /\ UNCHANGED <<normVars, now, storeVars, registryVars, probeVars, limitVars,
                   shutdownVars>>

InitHealth ==
    /\ data = Null
    /\ normalized = NotCalled
    /\ renormalized = NotCalled
    /\ now = 0
    /\ fsTarget = Absent
    /\ StoreAtRest
    /\ UtilAtRest

NextHealth ==
    \/ \E hours \in IdleHours : HoursPass(hours)
    \/ \E key \in HealthKeys :
           \/ HealthRecordSuccess(key)
           \/ HealthRecordRateLimit(key)
           \/ HealthRecordFailure(key)
           \/ HealthGetScore(key)

SpecHealth == InitHealth /\ [][NextHealth]_vars

(***************************************************************************)
(* The auth rate limiter: its functions.                                   *)
(***************************************************************************)

MaxLimit == 2
MaxWindow == 3
MaxRecorded == 3
MaxDate == 3

\* The configurations that configureAuthRateLimit has set before the calls.
AuthConfigs == [maxAttempts : 1..MaxLimit, windowMs : 2..MaxWindow]

\* pruneOldAttempts: the timestamps after the cutoff stay.
AtOrAfterCutoff(ts, cutoff) == ts >= cutoff
AfterCutoff(ts, cutoff) == ts > cutoff

pruneOldAttempts(record, t) ==
    [timestamps |-> SelectSeq(record.timestamps,
                              LAMBDA ts : AfterCutoff(ts, t - authConfig.windowMs))]

\* The Map once a function has looked the key up and pruned its record, if
\* it has one.
Pruned(map, key, t) ==
    IF map[key] = Undefined THEN map
    ELSE [map EXCEPT ![key] = pruneOldAttempts(map[key], t)]

\* canAttemptAuth: what it returns.
canAttemptAuth(map, accountId, t) ==
    IF map[getAccountKey(accountId)] = Undefined THEN TRUE
    ELSE Len(Pruned(map, getAccountKey(accountId), t)[getAccountKey(accountId)].timestamps)
             < authConfig.maxAttempts

\* recordAuthAttempt: the Map after it.
recordAuthAttempt(map, accountId, t) ==
    LET key == getAccountKey(accountId)
        record == IF map[key] = Undefined THEN [timestamps |-> << >>] ELSE map[key]
    IN  [map EXCEPT ![key] =
             [timestamps |-> Append(pruneOldAttempts(record, t).timestamps, t)]]

\* getAttemptsRemaining: what it returns.
getAttemptsRemaining(map, accountId, t) ==
    IF map[getAccountKey(accountId)] = Undefined THEN authConfig.maxAttempts
    ELSE Max(0, authConfig.maxAttempts
                    - Len(Pruned(map, getAccountKey(accountId), t)
                              [getAccountKey(accountId)].timestamps))

\* Math.min(...record.timestamps) of a list that is not empty.
newestAttempt(timestamps) ==
    CHOOSE ts \in {timestamps[i] : i \in 1..Len(timestamps)} :
        \A i \in 1..Len(timestamps) : ts >= timestamps[i]
oldestAttempt(timestamps) ==
    CHOOSE ts \in {timestamps[i] : i \in 1..Len(timestamps)} :
        \A i \in 1..Len(timestamps) : ts <= timestamps[i]

\* getTimeUntilReset: what it returns.
getTimeUntilReset(map, accountId, t) ==
    LET key == getAccountKey(accountId)
    IN  IF map[key] = Undefined \/ map[key].timestamps = << >> THEN 0
        ELSE IF Pruned(map, key, t)[key].timestamps = << >> THEN 0
        ELSE Max(0, oldestAttempt(Pruned(map, key, t)[key].timestamps)
                        + authConfig.windowMs - t)

\* new AuthRateLimitError(accountId, attemptsRemaining, resetAfterMs)
AuthRateLimitError(accountId, attemptsRemaining, resetAfterMs) ==
    [name |-> "AuthRateLimitError", accountId |-> accountId,
     attemptsRemaining |-> attemptsRemaining, resetAfterMs |-> resetAfterMs]

\* checkAuthRateLimit: what it throws, or Undefined when it returns.
checkAuthRateLimit(map, accountId, t) ==
    IF ~canAttemptAuth(map, accountId, t)
    THEN AuthRateLimitError(
             accountId,
             getAttemptsRemaining(Pruned(map, getAccountKey(accountId), t), accountId, t),
             getTimeUntilReset(Pruned(map, getAccountKey(accountId), t), accountId, t))
    ELSE Undefined

(***************************************************************************)
(* The auth rate limiter: the calls made to it.                            *)
(***************************************************************************)

\* A call that looks a key up, prunes its record and returns a value.
AuthQuery(name, accountId, result) ==
    /\ attemptsByAccount' = Pruned(attemptsByAccount, getAccountKey(accountId), dateNow)
    /\ authCall' = [op |-> name, accountId |-> accountId, at |-> dateNow,
                    result |-> result]
    /\ UNCHANGED <<authConfig, dateNow, attempted, backoffVars>>
    /\ UNCHANGED <<normVars, now, storeVars, nonLimitVars>>

CanAttemptAuth(accountId) ==
    AuthQuery("canAttemptAuth", accountId,
              canAttemptAuth(attemptsByAccount, accountId, dateNow))

GetAttemptsRemaining(accountId) ==
    AuthQuery("getAttemptsRemaining", accountId,
              getAttemptsRemaining(attemptsByAccount, accountId, dateNow))

\* getTimeUntilReset does not prune a record that holds no timestamp, which
\* leaves the Map the same.
GetTimeUntilReset(accountId) ==
    AuthQuery("getTimeUntilReset", accountId,
              getTimeUntilReset(attemptsByAccount, accountId, dateNow))

CheckAuthRateLimit(accountId) ==
    AuthQuery("checkAuthRateLimit", accountId,
              checkAuthRateLimit(attemptsByAccount, accountId, dateNow))

\* The number of attempts recorded and not reset since.
RECURSIVE Recorded(_)
Recorded(keys) ==
    IF keys = {} THEN 0
    ELSE LET key == CHOOSE k \in keys : TRUE
         IN  Len(attempted[key]) + Recorded(keys \ {key})

RecordAuthAttempt(accountId) ==
    /\ Recorded(AuthKeys) < MaxRecorded
    /\ attemptsByAccount' = recordAuthAttempt(attemptsByAccount, accountId, dateNow)
    /\ attempted' = [attempted EXCEPT ![getAccountKey(accountId)] = Append(@, dateNow)]
    /\ authCall' = [op |-> "recordAuthAttempt", accountId |-> accountId, at |-> dateNow,
                    result |-> Undefined]
    /\ UNCHANGED <<authConfig, dateNow, backoffVars>>
    /\ UNCHANGED <<normVars, now, storeVars, nonLimitVars>>

\* resetAuthRateLimit: attemptsByAccount.delete(key).
ResetAuthRateLimit(accountId) ==
    /\ attemptsByAccount[getAccountKey(accountId)] # Undefined
    /\ attemptsByAccount' =
           [attemptsByAccount EXCEPT ![getAccountKey(accountId)] = Undefined]
    /\ attempted' = [attempted EXCEPT ![getAccountKey(accountId)] = << >>]
    /\ authCall' = [op |-> "resetAuthRateLimit", accountId |-> accountId,
                    at |-> dateNow, result |-> Undefined]
    /\ UNCHANGED <<authConfig, dateNow, backoffVars>>
    /\ UNCHANGED <<normVars, now, storeVars, nonLimitVars>>

\* Date.now() moves on.
DatePasses ==
    /\ dateNow < MaxDate
    /\ dateNow' = dateNow + 1
    /\ authCall' = NoAuthCall
    /\ UNCHANGED <<authConfig, attemptsByAccount, attempted, backoffVars>>
    /\ UNCHANGED <<normVars, now, storeVars, nonLimitVars>>

InitAuth ==
    /\ data = Null
    /\ normalized = NotCalled
    /\ renormalized = NotCalled
    /\ now = 0
    /\ fsTarget = Absent
    /\ StoreAtRest
    /\ ShutdownLoaded
    /\ NewBreaker(DEFAULT_CIRCUIT_BREAKER_CONFIG)
    /\ EmptyRegistry
    /\ NotProbing
    /\ NotSelecting
    /\ \E c \in AuthConfigs : NewLimiter(c)
    /\ BackoffCleared

NextAuth ==
    \/ DatePasses
    \/ \E accountId \in AccountIds :
           \/ CanAttemptAuth(accountId)
           \/ GetAttemptsRemaining(accountId)
           \/ GetTimeUntilReset(accountId)
           \/ CheckAuthRateLimit(accountId)
           \/ RecordAuthAttempt(accountId)
           \/ ResetAuthRateLimit(accountId)

SpecAuth == InitAuth /\ [][NextAuth]_vars

(***************************************************************************)
(* The rate-limit backoff: its functions. Date.now() counts half seconds,  *)
(* the delays are in milliseconds.                                         *)
(***************************************************************************)

RATE_LIMIT_DEDUP_WINDOW_MS == 2000 \div 500
RATE_LIMIT_STATE_RESET_MS == 120000 \div 500
MAX_BACKOFF_MS == 5 * 60 * 1000
FALLBACK_DELAY_MS == 10 * 100

\* Not a number.
NaN == [type |-> "NaN"]

\* The multiplier of a reason, doubled: quota 3.0, tokens 1.5, concurrent
\* 0.5, unknown and any other reason 1.0.
TwiceMultiplier(reason) ==
    CASE reason = "quota" -> 6
      [] reason = "tokens" -> 3
      [] reason = "concurrent" -> 1
      [] OTHER -> 2

\* normalizeDelayMs: the retry-after of the server, or the fallback when it
\* is missing or not finite.
normalizeDelayMs(serverRetryAfterMs, fallback) ==
    IF serverRetryAfterMs.type = "number" THEN serverRetryAfterMs.val ELSE fallback

\* The delay of an attempt without its reason.
exponentialDelay(baseDelay, attempt) == Min(MAX_BACKOFF_MS, baseDelay * 2 ^ (attempt - 1))

\* Whether a report at time t is within the dedup window of the entry.
WithinDedupOrAt(entry, t) == t - entry.lastAt <= RATE_LIMIT_DEDUP_WINDOW_MS
WithinDedup(entry, t) == t - entry.lastAt < RATE_LIMIT_DEDUP_WINDOW_MS

\* Whether a report at time t comes before the quiet period of the entry has
\* passed.
BeforeReset(entry, t) == t - entry.lastAt < RATE_LIMIT_STATE_RESET_MS

\* getRateLimitBackoff: what it returns.
getRateLimitBackoff(entries, key, serverRetryAfterMs, t) ==
    IF entries[key] # NoEntry /\ WithinDedup(entries[key], t)
    THEN [attempt |-> entries[key].attempt, delayMs |-> entries[key].delayMs,
          isDuplicate |-> TRUE]
    ELSE LET attempt == IF entries[key] # NoEntry /\ BeforeReset(entries[key], t)
                        THEN entries[key].attempt + 1
                        ELSE 1
         IN  [attempt |-> attempt,
              delayMs |-> exponentialDelay(
                              normalizeDelayMs(serverRetryAfterMs, FALLBACK_DELAY_MS),
                              attempt),
              isDuplicate |-> FALSE]

\* getRateLimitBackoff: the state after it.
backoffStored(entries, key, serverRetryAfterMs, t) ==
    IF getRateLimitBackoff(entries, key, serverRetryAfterMs, t).isDuplicate THEN entries
    ELSE [entries EXCEPT ![key] =
             [attempt |-> getRateLimitBackoff(entries, key, serverRetryAfterMs, t).attempt,
              delayMs |-> getRateLimitBackoff(entries, key, serverRetryAfterMs, t).delayMs,
              lastAt |-> t]]

\* calculateBackoffMs(baseDelayMs, attempt, reason)
calculateBackoffMs(baseDelayMs, attempt, reason) ==
    Min(MAX_BACKOFF_MS, (baseDelayMs * 2 ^ (attempt - 1) * TwiceMultiplier(reason)) \div 2)

\* getRateLimitBackoffWithReason: what it returns, which is the result of
\* getRateLimitBackoff with its delay given to calculateBackoffMs.
getRateLimitBackoffWithReason(entries, key, serverRetryAfterMs, reason, t) ==
    [attempt |-> getRateLimitBackoff(entries, key, serverRetryAfterMs, t).attempt,
     delayMs |-> calculateBackoffMs(
                     getRateLimitBackoff(entries, key, serverRetryAfterMs, t).delayMs,
                     getRateLimitBackoff(entries, key, serverRetryAfterMs, t).attempt,
                     reason),
     isDuplicate |-> getRateLimitBackoff(entries, key, serverRetryAfterMs, t).isDuplicate,
     reason |-> reason]

(***************************************************************************)
(* The rate-limit backoff: the reports made to it.                         *)
(***************************************************************************)

MaxBackoffReports == 3
MaxDrift == 7

\* The retry-after values of the server.
RetryAfters(key) ==
    IF key[1] = 0 THEN {Undefined, NaN, Num(1000), Num(200000)} ELSE {Num(1000)}

\* The reasons given with a report.
Reasons == {"quota", "concurrent"}

\* The half seconds that pass in one step: 1 s, 2.5 s and 120 s.
BackoffSteps == {2, 5, RATE_LIMIT_STATE_RESET_MS}

\* The reports counted so far.
RECURSIVE Reported(_)
Reported(keys) ==
    IF keys = {} THEN 0
    ELSE LET key == CHOOSE k \in keys : TRUE
         IN  (IF backoffState[key] = NoEntry THEN 0 ELSE backoffState[key].attempt)
                 + Reported(keys \ {key})

\* A report of a 429 for a key.
Report(name, key, serverRetryAfterMs, reason, result) ==
    /\ Reported(BackoffKeys) < MaxBackoffReports
    /\ backoffState' = backoffStored(backoffState, key, serverRetryAfterMs, dateNow)
    /\ backoffCall' = [op |-> name, key |-> key, retryAfter |-> serverRetryAfterMs,
                       reason |-> reason, at |-> dateNow,
                       previous |-> backoffState[key], result |-> result]
    /\ UNCHANGED <<authVars>>
    /\ UNCHANGED <<normVars, now, storeVars, nonLimitVars>>

GetRateLimitBackoff(key, serverRetryAfterMs) ==
    Report("getRateLimitBackoff", key, serverRetryAfterMs, "unknown",
           getRateLimitBackoff(backoffState, key, serverRetryAfterMs, dateNow))

GetRateLimitBackoffWithReason(key, serverRetryAfterMs, reason) ==
    Report("getRateLimitBackoffWithReason", key, serverRetryAfterMs, reason,
           getRateLimitBackoffWithReason(backoffState, key, serverRetryAfterMs, reason,
                                         dateNow))

\* Time passes between two reports: some seconds, and at most once two
\* minutes.
Quiet(step) ==
    /\ dateNow + step <= RATE_LIMIT_STATE_RESET_MS + MaxDrift
    /\ (dateNow + step) % RATE_LIMIT_STATE_RESET_MS <= MaxDrift
    /\ dateNow' = dateNow + step
    /\ backoffCall' = NoReport
    /\ UNCHANGED <<authConfig, attemptsByAccount, attempted, authCall, backoffState>>
    /\ UNCHANGED <<normVars, now, storeVars, nonLimitVars>>

InitBackoff ==
    /\ data = Null
    /\ normalized = NotCalled
    /\ renormalized = NotCalled
    /\ now = 0
    /\ fsTarget = Absent
    /\ StoreAtRest
    /\ UtilAtRest

NextBackoff ==
    \/ \E step \in BackoffSteps : Quiet(step)
    \/ \E key \in BackoffKeys :
           \E serverRetryAfterMs \in RetryAfters(key) :
               \/ GetRateLimitBackoff(key, serverRetryAfterMs)
               \/ /\ key[1] = 0
                  /\ \E reason \in Reasons :
                         GetRateLimitBackoffWithReason(key, serverRetryAfterMs, reason)

SpecBackoff == InitBackoff /\ [][NextBackoff]_vars

(***************************************************************************)
(* The shutdown coordinator.  A callback of Throwing throws when it is     *)
(* called; any other returns a promise, which settles at any later time,   *)
(* fulfilled or rejected.  process.exit(0) ends the process: nothing       *)
(* happens after it.                                                       *)
(***************************************************************************)
MaxRegistrations == 3
MaxRunCalls == 1

Throwing == {MaxCallbacks}

\* cleanupFunctions.length = 0
lengthKept(list) == list
lengthZero(list) == << >>

\* cleanupFunctions.splice(cleanupFunctions.indexOf(fn), 1)
splice(list, fn) ==
    LET index == CHOOSE i \in 1..Len(list) :
                     list[i] = fn /\ \A j \in 1..(i - 1) : list[j] # fn
    IN  SubSeq(list, 1, index - 1) \o SubSeq(list, index + 1, Len(list))

\* The position in fns, from position next on, of the first callback that
\* does not throw: the for loop of runCleanup runs up to its await without a
\* break.  Len(fns) + 1 when there is none.
awaitedFrom(fns, next) ==
    LET waits == {i \in next..Len(fns) : fns[i] \notin Throwing}
    IN  IF waits = {} THEN Len(fns) + 1
        ELSE CHOOSE i \in waits : \A j \in waits : i <= j

\* The loop of a runCleanup over fns goes on from position next: the run
\* once the loop awaits again or has ended.
loopFrom(fns, next, origin) ==
    LET stop == awaitedFrom(fns, next)
    IN  [taken |-> fns,
         called |-> SubSeq(fns, 1, Min(stop, Len(fns))),
         awaiting |-> stop <= Len(fns),
         origin |-> origin]

\* How often each callback is invoked once a run has gone from `before` to
\* `after`.
invokedBy(before, after) ==
    [fn \in Callbacks |->
        invoked[fn]
            + Cardinality({i \in (Len(before) + 1)..Len(after) : after[i] = fn})]

\* The number of registerCleanup calls made for the callbacks of a set.
RECURSIVE Registrations(_)
Registrations(fns) ==
    IF fns = {} THEN 0
    ELSE LET fn == CHOOSE f \in fns : TRUE
         IN  registered[fn] + Registrations(fns \ {fn})

\* The process has not exited.
Alive == exitBy = "none"

\* .finally(() => { process.exit(0); }) of handleSignal, once the run ends.
exitAfter(run) ==
    IF ~run.awaiting /\ run.origin \in Signals THEN run.origin ELSE "none"

\* registerCleanup(fn), with ensureShutdownHandler.
RegisterCleanup(fn) ==
    /\ Alive
    /\ Registrations(Callbacks) < MaxRegistrations
    /\ cleanupFunctions' = Append(cleanupFunctions, fn)
    /\ registered' = [registered EXCEPT ![fn] = @ + 1]
    /\ shutdownRegistered' = TRUE
    /\ IF shutdownRegistered
       THEN UNCHANGED <<listeners, installs>>
       ELSE /\ listeners' = [event \in Events |-> listeners[event] + 1]
            /\ installs' = [event \in Events |-> installs[event] + 1]
    /\ UNCHANGED <<runs, invoked, exitBy>>
    /\ UNCHANGED <<normVars, now, storeVars, nonShutdownVars>>

\* unregisterCleanup(fn) of a callback that is in the list.
UnregisterCleanup(fn) ==
    /\ Alive
    /\ \E i \in 1..Len(cleanupFunctions) : cleanupFunctions[i] = fn
    /\ cleanupFunctions' = splice(cleanupFunctions, fn)
    /\ UNCHANGED <<shutdownRegistered, listeners, installs, runs, invoked, registered, exitBy>>
    /\ UNCHANGED <<normVars, now, storeVars, nonShutdownVars>>

\* runCleanup() up to its first await, or to its end: called by the program
\* or by a handler (origin).
runCleanup(origin) ==
    LET run == loopFrom(cleanupFunctions, 1, origin)
    IN  /\ cleanupFunctions' = lengthZero(cleanupFunctions)
        /\ runs' = Append(runs, run)
        /\ invoked' = invokedBy(<< >>, run.called)
        /\ exitBy' = exitAfter(run)
        /\ UNCHANGED <<shutdownRegistered, installs, registered>>
        /\ UNCHANGED <<normVars, now, storeVars, nonShutdownVars>>

\* The program calls runCleanup().
RunCleanup ==
    /\ Alive
    /\ Cardinality({r \in 1..Len(runs) : runs[r].origin = "call"}) < MaxRunCalls
    /\ runCleanup("call")
    /\ UNCHANGED listeners

\* SIGINT or SIGTERM is delivered: its one-shot handler, handleSignal, runs.
HandleSignal(signal) ==
    /\ Alive
    /\ listeners[signal] > 0
    /\ listeners' = [listeners EXCEPT ![signal] = 0]
    /\ runCleanup(signal)

\* beforeExit is emitted, no callback being in flight: its one-shot handler
\* runs.
BeforeExit ==
    /\ Alive
    /\ listeners["beforeExit"] > 0
    /\ \A r \in 1..Len(runs) : ~runs[r].awaiting
    /\ listeners' = [listeners EXCEPT !["beforeExit"] = 0]
    /\ runCleanup("beforeExit")

\* The promise that run r awaits settles, fulfilled or rejected: its loop
\* goes on.
CallbackSettles(r) ==
    /\ Alive
    /\ r <= Len(runs)
    /\ runs[r].awaiting
    /\ LET run == loopFrom(runs[r].taken, Len(runs[r].called) + 1, runs[r].origin)
       IN  /\ runs' = [runs EXCEPT ![r] = run]
           /\ invoked' = invokedBy(runs[r].called, run.called)
           /\ exitBy' = exitAfter(run)
    /\ UNCHANGED <<cleanupFunctions, shutdownRegistered, listeners, installs, registered>>
    /\ UNCHANGED <<normVars, now, storeVars, nonShutdownVars>>

MaxRuns == MaxRunCalls + 3

InitShutdown ==
    /\ data = Null
    /\ normalized = NotCalled
    /\ renormalized = NotCalled
    /\ now = 0
    /\ fsTarget = Absent
    /\ StoreAtRest
    /\ UtilAtRest

NextShutdown ==
    \/ \E fn \in Callbacks : RegisterCleanup(fn)
    \/ \E fn \in Callbacks : UnregisterCleanup(fn)
    \/ RunCleanup
    \/ \E signal \in Signals : HandleSignal(signal)
    \/ BeforeExit
    \/ \E r \in 1..MaxRuns : CallbackSettles(r)

SpecShutdown == InitShutdown /\ [][NextShutdown]_vars

(***************************************************************************)
(* Claims about the durable writers and loadAccounts.                      *)
(***************************************************************************)

\* The call is inside the function it passed to withStorageLock.
InSection(k) ==
    pc[k] \in {"mkdir", "writeFile", "stat", "rename", "catch", "throw", "unlinkTarget"}

\* The call has called withStorageLock.
HasQueued(k) == releaseLock[k] # 0

\* C1: the file-system sections that saveAccounts and clearAccounts run
\* inside withStorageLock never overlap, and they run in the order in which
\* the calls were made: no two calls are in their sections at once, and
\* when a call is in its section, the section of every call that called
\* withStorageLock before it has finished.
C1_SectionsSerializedFifo ==
    \A k \in Calls :
        InSection(k) =>
            \A j \in Calls \ {k} :
                /\ ~InSection(j)
                /\ (HasQueued(j) /\ releaseLock[j] < releaseLock[k]) =>
                       releaseLock[j] \in resolved

\* C1, its case: a clearAccounts or saveAccounts is in its section while a
\* later saveAccounts or clearAccounts waits for the lock.
C1_Witness ==
    \E j, k \in Calls :
        /\ op[j] \in {"save", "clear"} /\ op[k] \in {"save", "clear"} /\ op[j] # op[k]
        /\ InSection(j)
        /\ pc[k] = "queued"
        /\ previousMutex[k] = releaseLock[j]

Committed == {content \in InitialFiles \cup committed : Complete(content)}

\* C3: the storage file only changes by the rename of a fully written temp
\* file (or is removed), and what a loadAccounts reads is the whole content
\* an earlier or a newer save committed, never a part of one.
C3_LoadReadsCommitted ==
    /\ fsTarget \in Committed \cup {Absent}
    /\ \A content \in committed : Complete(content)
    /\ \A k \in Calls :
           loaded[k].value # NotCalled => loaded[k].content \in Committed \cup {Absent}

\* C3, its case: a loadAccounts called after a saveAccounts has read a whole
\* pool while that save has its temp file written and not yet renamed.
C3_Witness ==
    \E j, k \in Calls :
        /\ j < k
        /\ op[j] = "save" /\ pc[j] \in {"stat", "rename"} /\ fsTemp # Absent
        /\ op[k] = "load"
        /\ loaded[k].value # NotCalled
        /\ loaded[k].value.kind = "pool"

\* C4: between the moment an importAccounts has read the pool and the moment
\* it has written the merged pool, no other writer takes effect: the storage
\* file holds what the import read, or the import's own migration of it.
C4_ImportSerializedAsAWhole ==
    \A k \in Calls :
        (op[k] = "import" /\ pc[k] # "done" /\ loaded[k].value # NotCalled) =>
            \/ fsTarget = loaded[k].content
            \/ /\ loaded[k].value.kind = "pool"
               /\ fsTarget = File("all", PoolAsData(loaded[k].value))

\* The call is an importAccounts that has thrown: its file is not a pool, or
\* the merged pool would exceed the maximum.
ImportRefused(k) ==
    /\ op[k] = "import"
    /\ pc[k] = "done"
    /\ outcome[k].kind = "rejected"
    /\ outcome[k].error.name = "Error"

\* The call is an importAccounts that has loaded the pool and is saving, or
\* about to save, the merged pool.
ImportSaving(k) == op[k] = "import" /\ purpose[k] = "import" /\ pc[k] # "done"

\* C11, as first stated: an importAccounts that rejects because the merged
\* pool would exceed MAX_ACCOUNTS has written nothing to the store: no
\* saveAccounts of it has renamed a file onto the storage file.
C11_RefusedImportWroteNothing ==
    \A k \in Calls : ImportRefused(k) => saved[k].kind # "resolved"

\* C11, amended: an importAccounts that rejects because the merged pool
\* would exceed MAX_ACCOUNTS has not saved the merged pool, and the only
\* save it has made is the one by which its loadAccounts migrates a v1 file;
\* the pool an importAccounts saves holds at most MAX_ACCOUNTS accounts and
\* has the activeIndex and activeIndexByFamily of the pool it loaded, and it
\* is the pool its rename puts in the storage file.
C11_ImportWithinMaximum ==
    \A k \in Calls :
        /\ ImportRefused(k) =>
              /\ counts[k] = NotCalled
              /\ saved[k] # NotCalled =>
                     /\ Complete(loaded[k].content)
                     /\ StrictEq(loaded[k].content.json.version, Num(1))
        /\ ImportSaving(k) =>
              /\ Len(storage[k].accounts.items) <= MAX_ACCOUNTS
              /\ counts[k].total = Len(storage[k].accounts.items)
              /\ IF loaded[k].value.kind = "pool"
                 THEN /\ storage[k].activeIndex = Num(loaded[k].value.activeIndex)
                      /\ \A family \in Families :
                             storage[k].activeIndexByFamily.byFamily[family]
                                 = Num(loaded[k].value.activeIndexByFamily[family])
                 ELSE /\ storage[k].activeIndex = Num(0)
                      /\ storage[k].activeIndexByFamily = Undefined
              /\ pc[k] = "rename" => fsTemp = File("all", storage[k])
        /\ (op[k] = "import" /\ pc[k] = "done" /\ outcome[k].kind = "resolved") =>
              outcome[k].value.total <= MAX_ACCOUNTS

\* C11, its case: one importAccounts has merged its file into a loaded pool
\* whose active account is not the first, and has saved MAX_ACCOUNTS accounts;
\* another has rejected because the merged pool would exceed the maximum.
C11_Witness ==
    \E j, k \in Calls :
        /\ op[j] = "import" /\ pc[j] = "done" /\ outcome[j].kind = "resolved"
        /\ outcome[j].value.total = MAX_ACCOUNTS
        /\ outcome[j].value.skipped > 0
        /\ loaded[j].value.kind = "pool" /\ loaded[j].value.activeIndex # 0
        /\ ImportRefused(k)
        /\ outcome[k].error.message = "would exceed maximum"

(***************************************************************************)
(* Claims about CircuitBreaker.                                            *)
(***************************************************************************)

\* The number of the failures recorded since the breaker last became closed
\* that fall inside the window that ends now.
FailuresInWindow ==
    Cardinality({i \in 1..Len(recorded) : recorded[i] >= clock - config.failureWindowMs})

\* C12: a closed breaker becomes open exactly at the recordFailure that
\* brings the number of failures recorded within the last failureWindowMs to
\* failureThreshold, and stays closed as long as fewer fall inside the
\* window, however many failures were recorded over time.  The failures
\* counted are those recorded since the breaker last became closed.
C12_OpensAtThresholdInWindow ==
    /\ (last.op = "recordFailure" /\ last.before = "closed") =>
           IF FailuresInWindow >= config.failureThreshold
           THEN state = "open" /\ FailuresInWindow = config.failureThreshold
           ELSE state = "closed"
    /\ state = "closed" => FailuresInWindow < config.failureThreshold
    /\ (last.before = "closed" /\ state # "closed") =>
           last.op = "recordFailure" /\ state = "open"

\* C12, its case: a recordFailure has opened a closed breaker on which more
\* than failureThreshold failures had been recorded.
C12_Witness ==
    /\ last.op = "recordFailure"
    /\ last.before = "closed"
    /\ state = "open"
    /\ Len(recorded) > config.failureThreshold
    /\ config.failureThreshold > 1

\* C13: while a breaker is open and less than resetTimeoutMs has passed since
\* it entered open, canExecute throws CircuitOpenError and recordSuccess,
\* recordFailure and canExecute leave it open; the first canExecute at or
\* after resetTimeoutMs returns true and leaves it half-open.
C13_OpenUntilResetTimeout ==
    /\ (last.op = "canExecute" /\ last.before = "open") =>
           IF clock - openedAt < config.resetTimeoutMs
           THEN last.result = "CircuitOpenError" /\ state = "open"
           ELSE last.result = "true" /\ state = "half-open"
    /\ (last.op \in {"recordSuccess", "recordFailure"} /\ last.before = "open") =>
           state = "open"

\* C13, its case: after failures recorded on the open breaker, the canExecute
\* made resetTimeoutMs after the breaker opened has returned true.
C13_Witness ==
    /\ last.op = "canExecute"
    /\ last.before = "open"
    /\ last.result = "true"
    /\ state = "half-open"
    /\ clock - openedAt = config.resetTimeoutMs
    /\ Len(failures) > config.failureThreshold

\* C14: from the moment a breaker becomes half-open to its next change of
\* state, at most halfOpenMaxAttempts calls of canExecute return true, the
\* one that made it half-open being the first, and every further canExecute
\* throws CircuitOpenError.
C14_HalfOpenTrialsBounded ==
    /\ state = "half-open" => trials <= config.halfOpenMaxAttempts
    /\ (last.op = "canExecute" /\ last.before = "open" /\ state = "half-open") =>
           trials = 1 /\ last.result = "true"
    /\ (last.op = "canExecute" /\ last.before = "half-open") =>
           /\ state = "half-open"
           /\ last.result = "CircuitOpenError" => trials = config.halfOpenMaxAttempts
           /\ last.result \in {"true", "CircuitOpenError"}

\* C14, its case: a half-open breaker that allows more than one trial has
\* returned true that many times, and canExecute has thrown.
C14_Witness ==
    /\ state = "half-open"
    /\ config.halfOpenMaxAttempts > 1
    /\ trials = config.halfOpenMaxAttempts
    /\ last.op = "canExecute"
    /\ last.result = "CircuitOpenError"

\* C15: on a half-open breaker recordSuccess gives a closed breaker with no
\* failures and no trials counted, and recordFailure gives an open breaker
\* whose reset timeout starts at that instant; recordSuccess on a closed
\* breaker leaves it closed.
C15_HalfOpenOutcome ==
    /\ (last.op = "recordSuccess" /\ last.before = "half-open") =>
           state = "closed" /\ failures = << >> /\ halfOpenAttempts = 0
    /\ (last.op = "recordFailure" /\ last.before = "half-open") =>
           state = "open" /\ lastStateChange = clock /\ halfOpenAttempts = 0
    /\ (last.op = "recordSuccess" /\ last.before = "closed") => state = "closed"

\* C15, its case: a recordFailure has reopened a half-open breaker that had
\* used a trial, later than the breaker became half-open.
C15_Witness ==
    /\ last.op = "recordFailure"
    /\ last.before = "half-open"
    /\ state = "open"
    /\ clock > 0
    /\ Len(failures) > 1

(***************************************************************************)
(* Claims about getCircuitBreaker.                                         *)
(***************************************************************************)

\* C16: whatever keys getCircuitBreaker is called with, the empty string
\* included, the registry never holds more than 100 breakers, and a call
\* for a key that is still in the registry returns the breaker that the call
\* before it for that key returned.
C16_RegistryBoundedSingleton ==
    /\ Len(circuitBreakers) <= MAX_CIRCUIT_BREAKERS
    /\ \A i \in 1..Len(circuitBreakers) :
           /\ asked[circuitBreakers[i].key].breaker = circuitBreakers[i].breaker
           /\ RegistryGet(circuitBreakers, circuitBreakers[i].key)
                  = circuitBreakers[i].breaker

\* C17, as first stated: the breaker evicted is the least recently used one:
\* every key left in the registry has been asked for after the last call
\* that asked for the evicted key.
C17_EvictsLeastRecentlyRequested ==
    evicted.kind = "some" =>
        \A i \in 1..Len(circuitBreakers) :
            asked[circuitBreakers[i].key].at > evicted.at

\* C17, amended: the breaker evicted, when one is, is the oldest entry of the
\* registry: every breaker left in the registry was made after it.
C17_EvictsOldestEntry ==
    evicted.kind = "some" =>
        \A i \in 1..Len(circuitBreakers) : circuitBreakers[i].breaker > evicted.breaker

\* C17, its case: a new key was asked for at capacity, and the key evicted had
\* been asked for after some key that stays.
C17_Witness ==
    /\ evicted.kind = "some"
    /\ Len(circuitBreakers) = MAX_CIRCUIT_BREAKERS
    /\ \E i \in 1..Len(circuitBreakers) :
           asked[circuitBreakers[i].key].at < evicted.at

(***************************************************************************)
(* Claims about normalizeAccountStorage.                                   *)
(***************************************************************************)
PoolReturned == normalized.kind = "pool"
RawAccounts == data.accounts.items
ValidRaw == {i \in 1..Len(RawAccounts) :
                isRecord(RawAccounts[i]) /\ NonBlankString(RawAccounts[i].refreshToken)}

\* The account key and the trimmed email as the data model states them.
KeyOf(account) ==
    IF IsString(account.accountId) /\ account.accountId.val # << >>
    THEN account.accountId ELSE account.refreshToken
EmailOf(account) == IF IsString(account.email) THEN trim(account.email.val) ELSE << >>

\* C5: in every pool normalizeAccountStorage returns, no two accounts have
\* the same account key and no two have the same non-empty trimmed email.
C5_NoDuplicateKeyOrEmail ==
    PoolReturned =>
        \A i, j \in 1..Len(normalized.accounts) :
            i # j =>
                /\ KeyOf(normalized.accounts[i]) # KeyOf(normalized.accounts[j])
                /\ EmailOf(normalized.accounts[i]) # << >> =>
                       EmailOf(normalized.accounts[i]) # EmailOf(normalized.accounts[j])

\* A pool was returned from a file holding both a duplicate key and two
\* emails that are equal only after trim, and both passes dropped an entry.
C5_Witness ==
    /\ PoolReturned
    /\ Len(normalized.accounts) >= 1
    /\ Len(normalized.accounts) + 2 <= Cardinality(ValidRaw)
    /\ \E i, j \in ValidRaw :
          i # j /\ KeyOf(RawAccounts[i]) = KeyOf(RawAccounts[j])
    /\ \E i, j \in ValidRaw :
          /\ i # j /\ KeyOf(RawAccounts[i]) # KeyOf(RawAccounts[j])
          /\ EmailOf(RawAccounts[i]) # << >>
          /\ EmailOf(RawAccounts[i]) = EmailOf(RawAccounts[j])
          /\ RawAccounts[i].email # RawAccounts[j].email

\* The entry at the clamped raw activeIndex (Undefined if there is none).
RawActiveEntry ==
    ArrayAt(RawAccounts,
            clampIndex(IF IsNumber(data.activeIndex) THEN data.activeIndex.val ELSE 0,
                       Len(RawAccounts)))

\* Whether h (in halves) is a valid index of a sequence of length n.
ValidIndex(h, n) == IsInteger(h) /\ (h \div 2) \in 0..(n - 1)

\* C6: if the entry at the clamped raw activeIndex is itself among the
\* returned accounts, the returned activeIndex is its position.
C6_ActiveAccountKept ==
    (/\ PoolReturned
     /\ isRecord(RawActiveEntry)
     /\ \E i \in 1..Len(normalized.accounts) : normalized.accounts[i] = RawActiveEntry)
    => /\ ValidIndex(normalized.activeIndex, Len(normalized.accounts))
       /\ normalized.accounts[(normalized.activeIndex \div 2) + 1] = RawActiveEntry

\* C7: every returned pool has activeIndex, and activeIndexByFamily[f] for
\* every family f, a valid index of accounts, or 0 when accounts is empty.
C7_IndicesValid ==
    PoolReturned =>
        LET n == Len(normalized.accounts)
            Ok(h) == IF n = 0 THEN h = 0 ELSE ValidIndex(h, n)
        IN  /\ Ok(normalized.activeIndex)
            /\ \A family \in Families : Ok(normalized.activeIndexByFamily[family])

\* C8: normalizeAccountStorage returns null or a v3 pool whose accounts all
\* have a refresh token that is non-empty after trim; it never throws.
C8_Total ==
    normalized # NotCalled =>
        \/ normalized.kind = "null"
        \/ /\ normalized.kind = "pool"
           /\ normalized.version = 3
           /\ \A i \in 1..Len(normalized.accounts) :
                  NonBlankString(normalized.accounts[i].refreshToken)

\* The v1 entry a returned account comes from.
V1EntryOf(account) ==
    RawAccounts[CHOOSE i \in ValidRaw : RawAccounts[i].accountLabel = account.accountLabel]

\* C9: from a version-1 file, every returned account whose v1
\* rateLimitResetTime is in the future has rateLimitResetTimes[f] equal to
\* it for every family f, and every other account has no rate-limit entry.
C9_MigratedRateLimits ==
    (PoolReturned /\ StrictEq(data.version, Num(1))) =>
        \A i \in 1..Len(normalized.accounts) :
            LET account == normalized.accounts[i]
                rl == V1EntryOf(account).rateLimitResetTime
            IN  IF IsNumber(rl) /\ rl.val > now
                THEN /\ isRecord(account.rateLimitResetTimes)
                     /\ \A family \in Families :
                            account.rateLimitResetTimes.byFamily[family] = rl
                ELSE account.rateLimitResetTimes = Undefined

\* C10: normalizing a returned pool returns the same accounts in the same
\* order, the same activeIndex and the same activeIndexByFamily.
C10_Fixpoint ==
    renormalized # NotCalled =>
        /\ renormalized.kind = "pool"
        /\ renormalized.accounts = normalized.accounts
        /\ renormalized.activeIndex = normalized.activeIndex
        /\ renormalized.activeIndexByFamily = normalized.activeIndexByFamily

(***************************************************************************)
(* Claims about probeAccountsInParallel.                                   *)
(***************************************************************************)

\* The handlers of the promise of candidate c have run.
Handled(c) ==
    /\ probes[c].state \in {"fulfilled", "rejected"}
    /\ \A j \in 1..Len(microtasks) : microtasks[j].candidate # c

\* C18: with two or more candidates the prober settles its promise at most
\* once; a result that is not null is the success of the candidate whose
\* probe succeeded first, with the response of that probe, and it is there
\* as soon as the handler of that candidate has run; whatever the other
\* candidates do afterwards, the result stays that one.
C18_ResolvesOnceWithFirstSuccess ==
    Len(candidates) >= 2 =>
        /\ resolveCalls <= 1
        /\ (promise.state = "fulfilled" /\ promise.value # Null) =>
               /\ fulfilledOrder # << >>
               /\ promise.value = Success(candidates[fulfilledOrder[1]].account,
                                          probes[fulfilledOrder[1]].value)
        /\ (fulfilledOrder # << >> /\ Handled(fulfilledOrder[1])) =>
               /\ promise.state = "fulfilled"
               /\ promise.value # Null
        /\ winner # Null => promise = Fulfilled(winner)

\* C18, its case: of three candidates two have succeeded and one has failed,
\* the one that succeeded second with another response than the first, and
\* all their handlers have run.
C18_Witness ==
    /\ Len(candidates) = 3
    /\ Len(fulfilledOrder) = 2
    /\ probes[fulfilledOrder[1]].value # probes[fulfilledOrder[2]].value
    /\ resolvedCount = 1
    /\ \A c \in 1..3 : Handled(c)
    /\ promise.state = "fulfilled"

\* C19: once the prober has resolved with a winner, it has called abort()
\* exactly once on the controller of every other candidate of the list, and
\* never on the controller of the winner.
C19_LosersSignalledOnce ==
    (promise.state = "fulfilled" /\ promise.value.type = "success") =>
        \A c \in 1..Len(candidates) :
            Len(aborts[c]) = IF candidates[c].account = promise.value.account THEN 0 ELSE 1

\* C19, its case: the prober has resolved with a winner that is not the
\* first of three candidates, and a loser has succeeded afterwards and its
\* handler has run.
C19_Witness ==
    /\ Len(candidates) = 3
    /\ promise.state = "fulfilled"
    /\ promise.value.type = "success"
    /\ promise.value.account # candidates[1].account
    /\ Len(fulfilledOrder) >= 2
    /\ \A c \in 1..3 : Handled(c)

\* C20: with two or more candidates, the prober has resolved with null only
\* if the probe of every candidate has failed, and it has resolved with null
\* once every probe has failed and the handlers have run; and every abort()
\* the prober has made was made by the handler of a probe that succeeded,
\* never by the handler of one that failed.
C20_NullIffAllFail ==
    Len(candidates) >= 2 =>
        /\ promise = Fulfilled(Null) =>
               \A c \in 1..Len(candidates) : probes[c].state = "rejected"
        /\ (\A c \in 1..Len(candidates) : probes[c].state = "rejected" /\ Handled(c)) =>
               promise = Fulfilled(Null)
        /\ \A c \in 1..Len(candidates) :
               \A j \in 1..Len(aborts[c]) : probes[aborts[c][j]].state = "fulfilled"
        /\ fulfilledOrder = << >> => \A c \in 1..Len(candidates) : aborts[c] = << >>

\* C20, its case: the probes of three candidates have all failed and the
\* prober has resolved with null.
C20_Witness ==
    /\ Len(candidates) = 3
    /\ resolvedCount = 3
    /\ promise = Fulfilled(Null)

\* C21: whatever the list of candidates, the result of the prober is a
\* success or null, never a result that carries the error of a candidate.
C21_SuccessOrNull ==
    promise.state = "fulfilled" => promise.value.type \in {"success", "null"}

\* C21, as the code has it: with no candidate the result is null; with two or
\* more it is a success or null; with exactly one candidate it is the
\* success of that candidate or, when its probe failed, a failure result
\* that carries that candidate's account and the error of its probe.
C21_FailureOnlyForOneCandidate ==
    promise.state = "fulfilled" =>
        /\ Len(candidates) = 0 => promise.value = Null
        /\ Len(candidates) >= 2 => promise.value.type \in {"success", "null"}
        /\ Len(candidates) = 1 =>
               /\ probes[1].state = "fulfilled" =>
                      /\ promise.value.type = "success"
                      /\ promise.value.account = candidates[1].account
                      /\ promise.value.response = probes[1].value
               /\ probes[1].state = "rejected" =>
                      /\ promise.value.type = "failure"
                      /\ promise.value.account = candidates[1].account
                      /\ promise.value.error = probes[1].error

\* C21, its case: the probe of the only candidate has failed and the prober
\* has resolved.
C21_Witness ==
    /\ Len(candidates) = 1
    /\ probes[1].state = "rejected"
    /\ promise.state = "fulfilled"

(***************************************************************************)
(* Claims about the selection engine.                                      *)
(***************************************************************************)

\* The account is rate-limited under the key at time t: it has a reset time
\* under the key that is still to come.
LimitedUnder(account, key, t) ==
    /\ key \in DOMAIN account.rateLimitResetTimes
    /\ account.rateLimitResetTimes[key] > t

\* The account is available for the family and the model at time t.
AvailableFor(account, family, model, t) ==
    /\ ~LimitedUnder(account, family, t)
    /\ model # "" => ~LimitedUnder(account, family \o ":" \o model, t)
    /\ ~("coolingDownUntil" \in DOMAIN account /\ account.coolingDownUntil > t)

\* The hybrid score, times HOUR, that the selection made last gives to the
\* account at a place of its list, under the key.
ScoreIn(sel, place, key) ==
    2 * getScore(sel.health, <<sel.accounts[place].index, key>>, sel.at)
        + 5 * HOUR * getTokens(sel.tokens, <<sel.accounts[place].index, key>>, sel.at)
        + 2 * (sel.at - sel.accounts[place].lastUsed)

\* The quota key of a call of getTopCandidates.
QuotaKeyOf(sel) == IF sel.model = "" THEN sel.family ELSE sel.family \o ":" \o sel.model

\* C22: getTopCandidates returns at most maxCandidates accounts, each of them
\* available for the family and the model at the time of the call, in
\* non-increasing order of the hybrid score, accounts of equal score by
\* lower index; and the empty list when no account is available.
C22_TopCandidates ==
    selection.op = "getTopCandidates" =>
        LET sel == selection
            result == sel.result
        IN  /\ Len(result) <= sel.maxCandidates
            /\ \A n \in 1..Len(result) :
                   /\ result[n] \in 1..Len(sel.accounts)
                   /\ AvailableFor(sel.accounts[result[n]], sel.family, sel.model, sel.at)
            /\ \A n, m \in 1..Len(result) :
                   n < m =>
                       /\ ScoreIn(sel, result[n], QuotaKeyOf(sel))
                              >= ScoreIn(sel, result[m], QuotaKeyOf(sel))
                       /\ ScoreIn(sel, result[n], QuotaKeyOf(sel))
                              = ScoreIn(sel, result[m], QuotaKeyOf(sel))
                              => sel.accounts[result[n]].index
                                     < sel.accounts[result[m]].index
            /\ (\A place \in 1..Len(sel.accounts) :
                    ~AvailableFor(sel.accounts[place], sel.family, sel.model, sel.at))
                   => result = << >>

\* C22, its case: of a pool of three accounts, one of them not available,
\* the call has returned the two others, which have the same score.
C22_Witness ==
    /\ selection.op = "getTopCandidates"
    /\ Len(selection.accounts) = 3
    /\ Len(selection.result) = 2
    /\ \E place \in 1..3 :
           ~AvailableFor(selection.accounts[place], selection.family,
                         selection.model, selection.at)
    /\ ScoreIn(selection, selection.result[1], QuotaKeyOf(selection))
           = ScoreIn(selection, selection.result[2], QuotaKeyOf(selection))

\* C23: a call of getTopCandidates leaves the snapshot's accounts, the
\* health tracker and the token bucket tracker as they were.
C23_GetTopCandidatesPure ==
    [][(selection.op = "none" /\ selection'.op = "getTopCandidates") =>
           /\ pool' = pool
           /\ healthTracker' = healthTracker
           /\ tokenTracker' = tokenTracker]_vars

\* C24: getTopCandidates never returns the account whose circuit breaker is
\* open at the time of the call.
C24_OpenBreakerNotYielded ==
    (selection.op = "getTopCandidates" /\ selection.breaker = "open") =>
        \A n \in 1..Len(selection.result) :
            selection.accounts[selection.result[n]].index # 0

InWindow(key, t) ==
    {i \in 1..Len(attempted[key]) : attempted[key][i] > t - authConfig.windowMs}

\* The normalized key of an identifier: lowercased, then trimmed.
NormalizedKey(accountId) ==
    LET lower == [i \in 1..Len(accountId) |->
                      IF accountId[i] = "A" THEN "a"
                      ELSE IF accountId[i] = "B" THEN "b" ELSE accountId[i]]
        inner == {i \in 1..Len(lower) : lower[i] # " "}
    IN  IF inner = {} THEN << >>
        ELSE SubSeq(lower, CHOOSE i \in inner : \A j \in inner : i <= j,
                           CHOOSE i \in inner : \A j \in inner : i >= j)

\* C26: canAttemptAuth returns false exactly when at least maxAttempts
\* attempts recorded for the normalized key of its argument are within the
\* last windowMs; the attempts recorded for other keys do not count.
C26_SlidingWindow ==
    authCall.op = "canAttemptAuth" =>
        (authCall.result = FALSE
             <=> Cardinality(InWindow(NormalizedKey(authCall.accountId), authCall.at))
                     >= authConfig.maxAttempts)

\* C26, its case: canAttemptAuth returns true for an identifier that is not
\* its own key, at least maxAttempts attempts having been recorded for its
\* key, some of which have left the window, while the attempts within the
\* window of its key and of another key are maxAttempts or more together.
C26_Witness ==
    /\ authCall.op = "canAttemptAuth"
    /\ authCall.at = dateNow
    /\ authCall.result = TRUE
    /\ authCall.accountId # NormalizedKey(authCall.accountId)
    /\ Len(attempted[NormalizedKey(authCall.accountId)]) >= authConfig.maxAttempts
    /\ InWindow(NormalizedKey(authCall.accountId), dateNow) # {}
    /\ \E key \in AuthKeys :
           /\ key # NormalizedKey(authCall.accountId)
           /\ InWindow(key, dateNow) # {}
           /\ Cardinality(InWindow(key, dateNow))
                  + Cardinality(InWindow(NormalizedKey(authCall.accountId), dateNow))
                  >= authConfig.maxAttempts

\* C27: checkAuthRateLimit throws exactly when at least maxAttempts attempts
\* of the key are within the window, which is when canAttemptAuth returns
\* false, and the AuthRateLimitError it throws has attemptsRemaining = 0 and
\* a resetAfterMs above 0, which is the time until the oldest attempt within
\* the window leaves it.
C27_ErrorOfCheck ==
    authCall.op = "checkAuthRateLimit" =>
        LET key == NormalizedKey(authCall.accountId)
            inside == InWindow(key, authCall.at)
        IN  /\ authCall.result # Undefined
                <=> Cardinality(inside) >= authConfig.maxAttempts
            /\ authCall.result # Undefined =>
                   /\ authCall.result.name = "AuthRateLimitError"
                   /\ authCall.result.attemptsRemaining = 0
                   /\ authCall.result.resetAfterMs > 0
                   /\ \E i \in inside :
                          /\ \A j \in inside : attempted[key][i] <= attempted[key][j]
                          /\ authCall.result.resetAfterMs
                                 = attempted[key][i] + authConfig.windowMs - authCall.at

\* C27, its case: checkAuthRateLimit has thrown while the attempts within
\* the window were recorded at different times, an older attempt of the
\* key having left the window.
C27_Witness ==
    /\ authCall.op = "checkAuthRateLimit"
    /\ authCall.result # Undefined
    /\ LET key == NormalizedKey(authCall.accountId)
           inside == InWindow(key, authCall.at)
       IN  /\ \E i, j \in inside : attempted[key][i] # attempted[key][j]
           /\ Cardinality(inside) < Len(attempted[key])

(***************************************************************************)
(* Claims about the health tracker.                                        *)
(***************************************************************************)

SinceCounted == backoffCall.at - backoffCall.previous.lastAt

\* C29: a report within the dedup window (2 s) of the report counted last
\* for its key returns the attempt of that report, flagged as a duplicate,
\* and getRateLimitBackoff returns its delay too; the counter stays. The
\* first report after the dedup window is attempt + 1, and the first report
\* once the quiet period (120 s) has passed is attempt 1; neither is a
\* duplicate.
C29_DedupEscalateReset ==
    (backoffCall.op # "none" /\ backoffCall.previous # NoEntry) =>
        /\ SinceCounted < 4 =>
               /\ backoffCall.result.isDuplicate
               /\ backoffCall.result.attempt = backoffCall.previous.attempt
               /\ backoffCall.op = "getRateLimitBackoff" =>
                      backoffCall.result.delayMs = backoffCall.previous.delayMs
               /\ backoffState[backoffCall.key] = backoffCall.previous
        /\ (SinceCounted >= 4 /\ SinceCounted < 240) =>
               /\ ~backoffCall.result.isDuplicate
               /\ backoffCall.result.attempt = backoffCall.previous.attempt + 1
               /\ backoffState[backoffCall.key].attempt = backoffCall.previous.attempt + 1
               /\ backoffState[backoffCall.key].lastAt = backoffCall.at
        /\ SinceCounted >= 240 =>
               /\ ~backoffCall.result.isDuplicate
               /\ backoffCall.result.attempt = 1
               /\ backoffState[backoffCall.key].attempt = 1

\* C29, its case: the key was at attempt 2 and its next report, after the
\* quiet period, is attempt 1.
C29_Witness ==
    /\ backoffCall.op = "getRateLimitBackoff"
    /\ backoffCall.previous # NoEntry
    /\ backoffCall.previous.attempt = 2
    /\ SinceCounted >= 240
    /\ backoffCall.result.attempt = 1

\* C30: the delay of a report that is not a duplicate is the retry-after of
\* the server (1000 ms when it is missing or not finite) times
\* 2^(attempt - 1) times the multiplier of the reason, capped at
\* MAX_BACKOFF_MS: the exponential factor is applied once.
C30_DelayAppliesFactorOnce ==
    (backoffCall.op # "none" /\ ~backoffCall.result.isDuplicate) =>
        LET base == IF backoffCall.retryAfter.type = "number"
                    THEN backoffCall.retryAfter.val
                    ELSE 1000
            twice == CASE backoffCall.reason = "quota" -> 6
                       [] backoffCall.reason = "tokens" -> 3
                       [] backoffCall.reason = "concurrent" -> 1
                       [] OTHER -> 2
            delay == (base * 2 ^ (backoffCall.result.attempt - 1) * twice) \div 2
        IN  backoffCall.result.delayMs = IF delay > 300000 THEN 300000 ELSE delay

(***************************************************************************)
(* More claims about the circuit breaker.                                  *)
(***************************************************************************)

\* C37: once a half-open breaker has granted halfOpenMaxAttempts trials,
\* every canExecute throws CircuitOpenError and leaves it half-open, at any
\* later time, and the breaker leaves half-open only in a recordSuccess, a
\* recordFailure or a reset.
C37_SaturatedHalfOpenStays ==
    [][(state = "half-open" /\ trials >= config.halfOpenMaxAttempts) =>
           /\ last'.op = "canExecute" =>
                  last'.result = "CircuitOpenError" /\ state' = "half-open"
           /\ state' # "half-open" =>
                  last'.op \in {"recordSuccess", "recordFailure", "reset"}]_vars

\* C37, its case: longer after the breaker became half-open than the reset
\* timeout and the failure window together, canExecute has thrown, every
\* trial having been granted.
C37_Witness ==
    /\ state = "half-open"
    /\ trials >= config.halfOpenMaxAttempts
    /\ last.op = "canExecute"
    /\ last.result = "CircuitOpenError"
    /\ clock - lastStateChange > config.resetTimeoutMs + config.failureWindowMs

(***************************************************************************)
(* More claims about getCircuitBreaker.                                    *)
(***************************************************************************)

\* C38: when no reset and no success has occurred for the key of the
\* account, whose breaker was open, the state that getAccountHealth finds
\* under the key is open, whatever other keys have been asked for.
C38_OpenStateKept ==
    (last.op = "getAccountHealth" /\ last.before = "open") => last.result = "open"

\* C40 (liveness, under SpecProbeFair): once every candidate's probe has
\* settled, the promise that probeAccountsInParallel returned is eventually
\* fulfilled, and at no time is it rejected, whatever the number of candidates
\* and the order in which their probes settle.
EveryProbeSettled ==
    /\ promise.state # "none"
    /\ \A c \in 1..Len(candidates) : probes[c].state \in {"fulfilled", "rejected"}

C40_ProbeResolves ==
    /\ [](promise.state # "rejected")
    /\ EveryProbeSettled ~> (promise.state = "fulfilled")

\* Three candidates whose probes settled out of order, the last to settle
\* rejected, and the promise is fulfilled.
C40_Witness ==
    /\ Len(candidates) = MaxCandidates
    /\ EveryProbeSettled
    /\ promise.state = "fulfilled"
    /\ microtasks = << >>
    /\ resolvedCount >= 1
    /\ fulfilledOrder # << >>
    /\ fulfilledOrder[1] # 1

\* C39: when getTimeUntilReset returns t > 0 for an identifier, canAttemptAuth
\* returns true for it once t has elapsed with no attempt recorded meanwhile
\* (the Map is then as the call left it, but for pruning), whatever attempts
\* were recorded before.
C39_ResetTimeSuffices ==
    (authCall.op = "getTimeUntilReset" /\ authCall.result > 0) =>
        canAttemptAuth(attemptsByAccount, authCall.accountId,
                       authCall.at + authCall.result)

\* The valid accounts of the file, and what the pass by key leaves of them.
ValidAccounts ==
    SelectSeq(RawAccounts,
              LAMBDA account : isRecord(account) /\ NonBlankString(account.refreshToken))
KeyDeduplicated == deduplicateAccountsByKey(ValidAccounts)

\* Entry i of the list is the newest of the entries in the set group: no other
\* has a greater lastUsed, or the same lastUsed and a greater addedAt, or the
\* same of both and a later position.
NewestOf(list, group, i) ==
    \A j \in group \ {i} :
        \/ list[i].lastUsed > list[j].lastUsed
        \/ /\ list[i].lastUsed = list[j].lastUsed
           /\ list[i].addedAt > list[j].addedAt
        \/ /\ list[i].lastUsed = list[j].lastUsed
           /\ list[i].addedAt = list[j].addedAt
           /\ i > j

\* Entry i of the list is in the result of a pass.
KeptBy(result, list, i) == \E k \in 1..Len(result) : result[k] = list[i]

\* C33: in the pass by account key and in the pass by trimmed email, of the
\* entries that share a key, or a non-empty trimmed email, the one kept is the
\* one with the greatest lastUsed, then the greatest addedAt, then the latest
\* position in the input of the pass.
C33_NewestSurvives ==
    PoolReturned =>
        /\ \A i \in 1..Len(ValidAccounts) :
               KeptBy(KeyDeduplicated, ValidAccounts, i)
                   <=> NewestOf(ValidAccounts,
                                {j \in 1..Len(ValidAccounts) :
                                     KeyOf(ValidAccounts[j]) = KeyOf(ValidAccounts[i])},
                                i)
        /\ \A i \in 1..Len(KeyDeduplicated) :
               EmailOf(KeyDeduplicated[i]) # << >> =>
                   (KeptBy(deduplicateAccountsByEmail(KeyDeduplicated), KeyDeduplicated, i)
                        <=> NewestOf(KeyDeduplicated,
                                     {j \in 1..Len(KeyDeduplicated) :
                                          EmailOf(KeyDeduplicated[j])
                                              = EmailOf(KeyDeduplicated[i])},
                                     i))

\* The call is an importAccounts that has resolved, and no other call was
\* made: the storage file holds what it saved.
ImportedAlone(k) ==
    /\ op[k] = "import"
    /\ pc[k] = "done"
    /\ outcome[k].kind = "resolved"
    /\ \A j \in Calls \ {k} : pc[j] = "idle"

\* C34: after a successful importAccounts into an existing pool, the
\* activeIndex of the saved file is an index into its accounts, and the
\* account there has the account key of the account that was active in the
\* pool loaded before the import.
C34_ImportKeepsActiveAccount ==
    \A k \in Calls :
        (ImportedAlone(k) /\ loaded[k].value.kind = "pool") =>
            LET persisted == fsTarget.json
                before == loaded[k].value
                index == persisted.activeIndex.val
            IN  /\ IsInteger(index)
                /\ (index \div 2) \in 0..(Len(persisted.accounts.items) - 1)
                /\ KeyOf(persisted.accounts.items[(index \div 2) + 1])
                       = KeyOf(before.accounts[(before.activeIndex \div 2) + 1])

\* C35: the counts of a successful importAccounts: imported and skipped are
\* not negative, they add up to the number of accounts of the normalized
\* import file, and total is the number of accounts saved.
C35_ImportCounts ==
    \A k \in Calls :
        /\ ImportSaving(k) =>
               /\ counts[k].imported >= 0
               /\ counts[k].skipped >= 0
               /\ counts[k].imported + counts[k].skipped = Len(imported[k].accounts)
               /\ counts[k].total = Len(storage[k].accounts.items)
        /\ ImportedAlone(k) =>
               /\ outcome[k].value = counts[k]
               /\ outcome[k].value.imported >= 0
               /\ outcome[k].value.skipped >= 0
               /\ outcome[k].value.total = Len(fsTarget.json.accounts.items)

\* A call waits for the lock; a call holds it.
WaitsForLock(k) == pc[k] = "queued"
HoldsLock(k) == pc[k] \in Holding

\* C36 (liveness, under SpecStorageFair): every call that waits for the storage
\* lock comes to run its critical section, whether the writers before it
\* succeed or fail; and the promise a waiting call waits for is resolved or is
\* the one that another call, which waits or holds the lock, is to resolve:
\* no call waits for the lock while it holds it.
C36_LockReleased ==
    /\ \A k \in Calls : WaitsForLock(k) ~> HoldsLock(k)
    /\ [](\A k \in Calls :
              WaitsForLock(k) =>
                  \/ previousMutex[k] \in resolved
                  \/ \E j \in Calls \ {k} :
                         /\ releaseLock[j] = previousMutex[k]
                         /\ WaitsForLock(j) \/ HoldsLock(j))

\* C36, its case: a saveAccounts has rejected, and the call that was queued
\* behind it is in its critical section.
C36_Witness ==
    \E j, k \in Calls :
        /\ j # k
        /\ saved[j].kind = "rejected"
        /\ previousMutex[k] = releaseLock[j]
        /\ HoldsLock(k)

(***************************************************************************)
(* Claims about the shutdown coordinator.                                  *)
(***************************************************************************)

\* C31: a runCleanup invokes the callbacks it found registered in the order
\* of their registration, awaits one before it calls the next, goes on after
\* one that throws or rejects until it has invoked all of them, and leaves
\* the list empty; over all the calls of runCleanup, overlapping ones
\* included, no callback is invoked more often than it was registered.
C31_CleanupInOrderOnce ==
    /\ [](\A r \in 1..Len(runs) :
              /\ runs[r].called = SubSeq(runs[r].taken, 1, Len(runs[r].called))
              /\ runs[r].awaiting => runs[r].called # << >>
              /\ ~runs[r].awaiting => runs[r].called = runs[r].taken)
    /\ [](\A fn \in Callbacks : invoked[fn] <= registered[fn])
    /\ [][Len(runs') > Len(runs) =>
              /\ cleanupFunctions' = << >>
              /\ runs'[Len(runs')].taken = cleanupFunctions]_vars

\* C31, its case: a run awaits a callback; a run that began while it did has
\* invoked a callback that throws and then another; a callback that was
\* registered twice has been invoked twice.
C31_Witness ==
    /\ \E r, q \in 1..Len(runs) :
           /\ r < q
           /\ runs[r].awaiting
           /\ Len(runs[q].called) >= 2
           /\ runs[q].called[1] \in Throwing
    /\ \E fn \in Callbacks : invoked[fn] = 2 /\ registered[fn] = 2

\* C32: the handlers of SIGINT, SIGTERM and beforeExit are installed once,
\* however many callbacks are registered; when process.exit(0) is called, a
\* signal handler calls it, and every callback that the runCleanup of a
\* handler took has run to completion: no such run awaits a callback or has
\* callbacks left to invoke.
C32_ExitAfterCleanup ==
    /\ \A event \in Events : installs[event] = IF shutdownRegistered THEN 1 ELSE 0
    /\ exitBy # "none" =>
           /\ exitBy \in Signals
           /\ \A r \in 1..Len(runs) :
                  runs[r].origin \in Events =>
                      ~runs[r].awaiting /\ runs[r].called = runs[r].taken

====
